---- MODULE Spec2Model ----
(***************************************************************************)
(* Interaction Ledger and Demand Aggregator of the gallery guide           *)
(* (src/backend/analytics_db.py, class AnalyticsDB).                       *)
(*                                                                         *)
(* The ledger is a durable SQLite file.  Every operation runs inside       *)
(* get_connection(): it takes the process-wide threading.Lock, opens a     *)
(* connection of its own, runs its statements in an implicit transaction,  *)
(* and commits on normal exit or rolls back when the body raises.          *)
(*                                                                         *)
(* Numbers.  The similarity columns of the ledger are Python floats and    *)
(* are kept as floats (see below); demand scores, which the code rounds to *)
(* two decimals, are kept as their number of hundredths, durations in      *)
(* whole units.  The similarities of the vector index are only compared,   *)
(* never added, and are kept in units of 1/SimScale.                       *)
(***************************************************************************)
EXTENDS Integers, Sequences, FiniteSets, TLC

VARIABLES
    db,      \* the committed content of the database file (six tables)
    lock,    \* AnalyticsDB.lock: "free" or the thread that holds it
    pc,      \* per thread: "idle", "acquire", "body", "nested_acquire"
    call,    \* per thread: the ledger operation in progress and its arguments
    conn,    \* open connections: thread -> the content its connection sees
    exc,     \* per thread: the exception pending in the get_connection body
    snap,    \* history: thread -> committed content when its operation began
    ncalls,  \* number of operations begun so far
    calc,    \* harness of the pure score function: its inputs and result
    srch,    \* a running semantic index, the query in hand, its last search
    disk,    \* the catalog file and the three files of vector_cache
    rag      \* the UbuntuRAGSystem process: its position and its fields

vars == <<db, lock, pc, call, conn, exc, snap, ncalls, calc, srch, disk, rag>>

----------------------------------------------------------------------------
(* Bounds of the model *)

MaxSeed == 2     \* interactions already stored in the file at construction
MaxCalls == 2    \* ledger operations begun in one behaviour
MaxQ == 3        \* largest queries / clicks argument of the score harness
MaxFb == 2       \* largest positive / negative argument of the score harness

Threads == {"t1", "t2"}
QueryIds == {"q1", "q2"}
ArtworkIds == {1, 2}
SessionIds == {"s1"}
NewSessionIds == {"s2"}      \* session ids without a row in the file
NoVisitor == "None"          \* visitor_id = None
VisitorIds == {"v1", NoVisitor}
Durations == {5}

(* Program constants *)
SimScale == 1000             \* unit of the similarities of the vector index
VolumeCap == 50              \* min(queries / 50, 1.0)
DaysToKeep == 90             \* _cleanup_old_data(days_to_keep=90)

(* Time in days.  QueryDay is the timestamp of the query_logs rows of the  *)
(* file, StartDays the days on which the program may be constructed.       *)
QueryDay == [q \in QueryIds |-> IF q = "q1" THEN 0 ELSE 60]
StartDays == {80, 100}
CallDay == 100

ScoreArgs ==
    [type : {"int"}, val : 1..5] \cup {[type |-> "str", val |-> 5],
                                       [type |-> "none", val |-> 0]}

NoCall == [op |-> "none"]
NoCalc == [stage |-> "off"]
NoSrch == [stage |-> "off"]
NoDisk == [stage |-> "off"]
NoRag == [stage |-> "off"]

----------------------------------------------------------------------------
(* Small helpers on tables.  A table keyed by a primary key is a function  *)
(* whose domain is the set of keys that have a row.                        *)

Put(T, k, row) == [x \in (DOMAIN T) \cup {k} |-> IF x = k THEN row ELSE T[x]]

EmptyTable == [x \in {} |-> 0]

Min(a, b) == IF a < b THEN a ELSE b

----------------------------------------------------------------------------
(* Python floats.  The REAL columns and the score are IEEE 754 binary64    *)
(* values, and every operation on them rounds to the nearest value, ties   *)
(* to even.  A float is kept as its 53-bit significand m and exponent e    *)
(* (value m * 2^e; zero is m = <<>>, e = 0); the significand is a natural  *)
(* number written in limbs of LimbBits bits, lowest limb first.  Only      *)
(* non-negative finite values in the normal range occur.                   *)

LimbBits == 15
LimbBase == 32768
Precision == 53

RECURSIVE NatNorm(_)
NatNorm(a) ==
    IF a = <<>> THEN <<>>
    ELSE IF a[Len(a)] = 0 THEN NatNorm(SubSeq(a, 1, Len(a) - 1)) ELSE a

Limb(a, i) == IF i <= Len(a) THEN a[i] ELSE 0

RECURSIVE NatAddFrom(_, _, _, _)
NatAddFrom(a, b, i, carry) ==
    IF i > Len(a) /\ i > Len(b)
    THEN IF carry = 0 THEN <<>> ELSE <<carry>>
    ELSE LET s == Limb(a, i) + Limb(b, i) + carry
         IN <<s % LimbBase>> \o NatAddFrom(a, b, i + 1, s \div LimbBase)

(* a * k + carry for 0 <= k, carry < LimbBase *)
RECURSIVE NatMulSmallFrom(_, _, _, _)
NatMulSmallFrom(a, k, i, carry) ==
    IF i > Len(a) THEN IF carry = 0 THEN <<>> ELSE <<carry>>
    ELSE LET p == a[i] * k + carry
         IN <<p % LimbBase>> \o NatMulSmallFrom(a, k, i + 1, p \div LimbBase)

NatMulSmall(a, k) == NatNorm(NatMulSmallFrom(a, k, 1, 0))

RECURSIVE NatMul(_, _)
NatMul(a, b) ==
    IF a = <<>> \/ b = <<>> THEN <<>>
    ELSE LET rest == NatMul(a, Tail(b))
         IN NatAddFrom(NatMulSmall(a, b[1]),
                       IF rest = <<>> THEN <<>> ELSE <<0>> \o rest, 1, 0)

NatShl(a, n) ==
    IF a = <<>> THEN <<>>
    ELSE [i \in 1..(n \div LimbBits) |-> 0]
         \o NatMulSmall(a, 2^(n % LimbBits))

BitLength(a) ==
    IF a = <<>> THEN 0
    ELSE LimbBits * (Len(a) - 1)
         + (CHOOSE n \in 1..LimbBits :
               2^(n - 1) <= a[Len(a)] /\ a[Len(a)] < 2^n)

(* floor(a / 2^n) *)
RECURSIVE NatShrBits(_, _, _)
NatShrBits(a, k, i) ==
    IF i > Len(a) THEN <<>>
    ELSE <<(a[i] \div 2^(k)
            + (Limb(a, i + 1) % 2^(k)) * 2^(LimbBits - k)) % LimbBase>>
         \o NatShrBits(a, k, i + 1)

NatShr(a, n) ==
    IF n \div LimbBits >= Len(a) THEN <<>>
    ELSE NatNorm(NatShrBits(SubSeq(a, n \div LimbBits + 1, Len(a)),
                            n % LimbBits, 1))

(* Long division of a by the integer k (0 < k < 2^26): the quotient and   *)
(* the remainder, from the highest limb down, each limb in three steps of  *)
(* five bits so that no intermediate value passes 2^31.                    *)
LimbDiv(rem, limb, k) ==
    LET c1 == rem * 32 + (limb \div 1024)
        c2 == (c1 % k) * 32 + ((limb \div 32) % 32)
        c3 == (c2 % k) * 32 + (limb % 32)
    IN [q |-> (c1 \div k) * 1024 + (c2 \div k) * 32 + (c3 \div k),
        r |-> c3 % k]

RECURSIVE NatDivFrom(_, _, _)
NatDivFrom(a, k, i) ==
    IF i > Len(a) THEN [q |-> <<>>, r |-> 0]
    ELSE LET high == NatDivFrom(a, k, i + 1)
             d == LimbDiv(high.r, a[i], k)
         IN [q |-> <<d.q>> \o high.q, r |-> d.r]

(* a / 2^d rounded to the nearest integer, ties to even; inexact says that *)
(* a itself stands for a value slightly above a.                           *)
NatShrRound(a, d, inexact) ==
    IF d = 0 THEN a
    ELSE LET q1 == NatShr(a, d - 1)
             q == NatShr(q1, 1)
             half == Limb(q1, 1) % 2 = 1
             above == inexact \/ NatShl(q1, d - 1) # a
             up == half /\ (above \/ Limb(q, 1) % 2 = 1)
         IN IF up THEN NatAddFrom(q, <<1>>, 1, 0) ELSE q

FloatZero == [m |-> <<>>, e |-> 0]

(* The float nearest to m * 2^e. *)
FloatRound(m, e, inexact) ==
    IF m = <<>> THEN FloatZero
    ELSE LET len == BitLength(m)
         IN IF len <= Precision
            THEN [m |-> NatShl(m, Precision - len), e |-> e - (Precision - len)]
            ELSE LET d == len - Precision
                     r == NatShrRound(m, d, inexact)
                 IN IF BitLength(r) > Precision
                    THEN [m |-> NatShr(r, 1), e |-> e + d + 1]
                    ELSE [m |-> r, e |-> e + d]

(* float(n) for an integer 0 <= n < 2^31 *)
FloatFromInt(n) ==
    FloatRound(NatNorm(<<n % LimbBase, (n \div LimbBase) % LimbBase,
                         n \div (LimbBase * LimbBase)>>), 0, FALSE)

FloatMul(x, y) ==
    IF x.m = <<>> \/ y.m = <<>> THEN FloatZero
    ELSE FloatRound(NatMul(x.m, y.m), x.e + y.e, FALSE)

FloatAdd(x, y) ==
    IF x.m = <<>> THEN y
    ELSE IF y.m = <<>> THEN x
    ELSE LET e == IF x.e < y.e THEN x.e ELSE y.e
         IN FloatRound(NatAddFrom(NatShl(x.m, x.e - e),
                                  NatShl(y.m, y.e - e), 1, 0),
                       e, FALSE)

(* x / k for a float x and an integer k > 0 *)
FloatDivInt(x, k) ==
    IF x.m = <<>> THEN FloatZero
    ELSE LET extra == 32
             d == NatDivFrom(NatShl(x.m, extra), k, 1)
         IN FloatRound(NatNorm(d.q), x.e - extra, d.r # 0)

(* a / b for integers, and the decimal literal a/b *)
Ratio(a, b) == FloatDivInt(FloatFromInt(a), b)

RECURSIVE NatLessFrom(_, _, _)
NatLessFrom(a, b, i) ==
    IF i = 0 THEN FALSE
    ELSE IF a[i] # b[i] THEN a[i] < b[i] ELSE NatLessFrom(a, b, i - 1)

(* min(x, y): y when y < x, else x *)
FloatMin(x, y) ==
    LET less == IF x.m = <<>> THEN FALSE
                ELSE IF y.m = <<>> THEN TRUE
                ELSE \/ y.e < x.e
                     \/ y.e = x.e /\ NatLessFrom(y.m, x.m, Len(y.m))
    IN IF less THEN y ELSE x

Sims == {Ratio(5, 10), Ratio(8, 10)}                    \* 0.5 and 0.8

(* round(x, 2) in hundredths: the integer nearest to 100 * x, ties to even *)
Round2(x) ==
    IF x.m = <<>> THEN 0
    ELSE LET n == NatMulSmall(x.m, 100)
             r == IF x.e >= 0 THEN NatShl(n, x.e)
                  ELSE NatShrRound(n, 0 - x.e, FALSE)
         IN Limb(r, 1) + LimbBase * Limb(r, 2)
            + LimbBase * LimbBase * Limb(r, 3)

----------------------------------------------------------------------------
(* _calculate_demand_score: the score in hundredths.                       *)
(*   score = (min(q/50,1)*0.4 + c/q*0.3 + s*0.2 + fr*0.1) * 100, rounded   *)
(*   to 2 decimals, fr = p/(p+n) or 0.5; 0.0 when q = 0.                   *)
(* Every division, product and sum is the float operation of the code, in  *)
(* the code's order; round(score, 2) is kept as the number of hundredths.  *)

CalculateDemandScore(queries, clicks, similarity, positive, negative) ==
    IF queries = 0 THEN 0
    ELSE
      LET click_rate == Ratio(clicks, queries)
          feedback_rate == IF positive + negative > 0
                           THEN Ratio(positive, positive + negative)
                           ELSE Ratio(5, 10)
          volume == FloatMin(Ratio(queries, VolumeCap), FloatFromInt(1))
          score == FloatMul(
                     FloatAdd(
                       FloatAdd(
                         FloatAdd(FloatMul(volume, Ratio(4, 10)),
                                  FloatMul(click_rate, Ratio(3, 10))),
                         FloatMul(similarity, Ratio(2, 10))),
                       FloatMul(feedback_rate, Ratio(1, 10))),
                     FloatFromInt(100))
      IN Round2(score)

----------------------------------------------------------------------------
(* Rows and the aggregate update.                                          *)

InteractionRow(iid, q, a, sim, clicked, dur) ==
    [interaction_id |-> iid, query_id |-> q, artwork_id |-> a,
     similarity_score |-> sim, was_clicked |-> clicked,
     click_duration |-> dur, feedback_score |-> 0]     \* 0 stands for NULL

(* _update_artwork_demand, the statements inside its connection: update    *)
(* the artwork's row with the running mean, or insert the first row.       *)
UpdateArtworkDemand(D, i) ==
    LET T == D.artwork_demand
        a == i.artwork_id
        c == IF i.was_clicked THEN 1 ELSE 0
    IN IF a \in DOMAIN T
       THEN LET artwork == T[a]
                total_queries == artwork.total_queries + 1
                total_clicks  == artwork.total_clicks + c
                total_time    == artwork.total_time_viewed + i.click_duration
                new_avg == FloatDivInt(
                               FloatAdd(
                                 FloatMul(artwork.avg_similarity,
                                          FloatFromInt(artwork.total_queries)),
                                 i.similarity_score),
                               total_queries)
                demand_score == CalculateDemandScore(
                                    total_queries, total_clicks, new_avg,
                                    artwork.positive_feedback,
                                    artwork.negative_feedback)
            IN [D EXCEPT !.artwork_demand =
                  [T EXCEPT ![a] =
                     [artwork EXCEPT !.total_queries = total_queries,
                                     !.total_clicks = total_clicks,
                                     !.avg_similarity = new_avg,
                                     !.total_time_viewed = total_time,
                                     !.demand_score = demand_score]]]
       ELSE [D EXCEPT !.artwork_demand =
               Put(T, a,
                   [total_queries |-> 1,
                    total_clicks |-> c,
                    avg_similarity |-> i.similarity_score,
                    total_time_viewed |-> i.click_duration,
                    positive_feedback |-> 0,
                    negative_feedback |-> 0,
                    demand_score |-> CalculateDemandScore(
                                        1, c, i.similarity_score, 0, 0)])]

(* _recalculate_demand_score, the statements inside its connection.        *)
RecalculateDemandScore(D, a) ==
    LET T == D.artwork_demand
    IN IF a \notin DOMAIN T THEN D
       ELSE [D EXCEPT !.artwork_demand =
               [T EXCEPT ![a].demand_score =
                  CalculateDemandScore(T[a].total_queries, T[a].total_clicks,
                                       T[a].avg_similarity,
                                       T[a].positive_feedback,
                                       T[a].negative_feedback)]]

----------------------------------------------------------------------------
(* Parameter binding of cursor.execute.  sqlite3 binds a tuple or a list;  *)
(* asdict(row).values() is a dict view, which is neither a sequence nor a  *)
(* mapping, and execute raises ProgrammingError before running the         *)
(* statement.                                                              *)
BindsParameters(kind) == kind \in {"tuple", "list"}

(* Each body below is the part of an operation that runs inside its own    *)
(* get_connection block, up to its end, to the exception it raises, or to  *)
(* the helper it calls that opens a get_connection block of its own.       *)
(* Result: the content the connection then sees, the exception raised      *)
(* ("none" if none), and whether the body stands at such a nested block.   *)
Outcome(D, e, n) == [db |-> D, exc |-> e, nested |-> n]

(* log_query: INSERT INTO query_logs, then _update_hourly_metrics.         *)
LogQueryBody(D, c) ==
    IF ~BindsParameters("dict_values") THEN Outcome(D, "ProgrammingError", FALSE)
    ELSE IF c.query_id \in DOMAIN D.query_logs
    THEN Outcome(D, "IntegrityError", FALSE)
    ELSE Outcome([D EXCEPT !.query_logs =
                     Put(D.query_logs, c.query_id,
                         [session_id |-> c.session_id,
                          visitor_id |-> c.visitor_id,
                          timestamp |-> c.timestamp])],
                 "none", TRUE)

(* log_artwork_interaction: INSERT INTO artwork_interactions, then         *)
(* _update_artwork_demand.                                                 *)
LogArtworkInteractionBody(D, c) ==
    IF ~BindsParameters("dict_values") THEN Outcome(D, "ProgrammingError", FALSE)
    ELSE IF \E k \in 1..Len(D.artwork_interactions) :
              D.artwork_interactions[k].interaction_id = c.interaction.interaction_id
    THEN Outcome(D, "IntegrityError", FALSE)
    ELSE Outcome([D EXCEPT !.artwork_interactions = Append(@, c.interaction)],
                 "none", TRUE)

(* A record_click that writes nothing unless an interaction row matches.   *)
RecordClickBodyMatchedOnly(D, c) ==
    IF \E k \in 1..Len(D.artwork_interactions) :
          /\ D.artwork_interactions[k].query_id = c.query_id
          /\ D.artwork_interactions[k].artwork_id = c.artwork_id
    THEN Outcome(
           [D EXCEPT
              !.artwork_interactions =
                 [k \in 1..Len(D.artwork_interactions) |->
                    LET r == D.artwork_interactions[k]
                    IN IF r.query_id = c.query_id /\ r.artwork_id = c.artwork_id
                       THEN [r EXCEPT !.was_clicked = TRUE,
                                      !.click_duration = c.duration]
                       ELSE r],
              !.artwork_demand =
                 [a \in DOMAIN D.artwork_demand |->
                    IF a = c.artwork_id
                    THEN [D.artwork_demand[a] EXCEPT
                             !.total_clicks = @ + 1,
                             !.total_time_viewed = @ + c.duration]
                    ELSE D.artwork_demand[a]]],
           "none", FALSE)
    ELSE Outcome(D, "none", FALSE)

(* A record_click whose session UPDATE has no WHERE clause.                 *)
RecordClickBodyEverySession(D, c) ==
    Outcome(
      [D EXCEPT
         !.artwork_interactions =
            [k \in 1..Len(D.artwork_interactions) |->
               LET r == D.artwork_interactions[k]
               IN IF r.query_id = c.query_id /\ r.artwork_id = c.artwork_id
                  THEN [r EXCEPT !.was_clicked = TRUE,
                                 !.click_duration = c.duration]
                  ELSE r],
         !.artwork_demand =
            [a \in DOMAIN D.artwork_demand |->
               IF a = c.artwork_id
               THEN [D.artwork_demand[a] EXCEPT
                        !.total_clicks = @ + 1,
                        !.total_time_viewed = @ + c.duration]
               ELSE D.artwork_demand[a]],
         !.visitor_sessions =
            [s \in DOMAIN D.visitor_sessions |->
               [D.visitor_sessions[s] EXCEPT
                  !.total_artworks_viewed = @ + 1,
                  !.total_time_spent = @ + c.duration]]],
      "none", FALSE)

(* record_click: three UPDATE statements, no helper.                       *)
RecordClickBody(D, c) ==
    LET I1 == [k \in 1..Len(D.artwork_interactions) |->
                 LET r == D.artwork_interactions[k]
                 IN IF r.query_id = c.query_id /\ r.artwork_id = c.artwork_id
                    THEN [r EXCEPT !.was_clicked = TRUE,
                                   !.click_duration = c.duration]
                    ELSE r]
        A1 == [a \in DOMAIN D.artwork_demand |->
                 IF a = c.artwork_id
                 THEN [D.artwork_demand[a] EXCEPT
                          !.total_clicks = @ + 1,
                          !.total_time_viewed = @ + c.duration]
                 ELSE D.artwork_demand[a]]
        S1 == [s \in DOMAIN D.visitor_sessions |->
                 IF c.query_id \in DOMAIN D.query_logs
                    /\ s = D.query_logs[c.query_id].session_id
                 THEN [D.visitor_sessions[s] EXCEPT
                          !.total_artworks_viewed = @ + 1,
                          !.total_time_spent = @ + c.duration]
                 ELSE D.visitor_sessions[s]]
    IN Outcome([D EXCEPT !.artwork_interactions = I1,
                         !.artwork_demand = A1,
                         !.visitor_sessions = S1],
               "none", FALSE)

(* The artworks referenced by the interactions of a query.                 *)
ArtworksOfQuery(D, q) ==
    {D.artwork_interactions[k].artwork_id :
        k \in {j \in 1..Len(D.artwork_interactions) :
                  D.artwork_interactions[j].query_id = q}}

(* FeedbackCounters with the positive side starting at 3.                  *)
FeedbackCountersFrom3(D, q, score) ==
    [D EXCEPT !.artwork_demand =
       [a \in DOMAIN D.artwork_demand |->
          IF a \in {D.artwork_interactions[k].artwork_id :
                      k \in {j \in 1..Len(D.artwork_interactions) :
                                D.artwork_interactions[j].query_id = q}}
          THEN IF score >= 3
               THEN [D.artwork_demand[a] EXCEPT !.positive_feedback = @ + 1]
               ELSE IF score <= 2
               THEN [D.artwork_demand[a] EXCEPT !.negative_feedback = @ + 1]
               ELSE D.artwork_demand[a]
          ELSE D.artwork_demand[a]]]

(* record_feedback, "Update artwork demand": score >= 4 adds one to        *)
(* positive_feedback, score <= 2 to negative_feedback, on every artwork    *)
(* the query's interactions reference.                                     *)
FeedbackCounters(D, q, score) ==
    [D EXCEPT !.artwork_demand =
       [a \in DOMAIN D.artwork_demand |->
          IF a \in ArtworksOfQuery(D, q)
          THEN IF score >= 4
               THEN [D.artwork_demand[a] EXCEPT !.positive_feedback = @ + 1]
               ELSE IF score <= 2
               THEN [D.artwork_demand[a] EXCEPT !.negative_feedback = @ + 1]
               ELSE D.artwork_demand[a]
          ELSE D.artwork_demand[a]]]

(* record_feedback: INSERT INTO feedback, UPDATE artwork_interactions,     *)
(* the counters, then _recalculate_demand_score for each interaction row.  *)
(* A score of None violates NOT NULL in the INSERT; a str score is stored  *)
(* and stamped, and then `score >= 4` raises TypeError.                    *)
RecordFeedbackBody(D, c) ==
    IF c.score.type = "none" THEN Outcome(D, "IntegrityError", FALSE)
    ELSE
      LET D1 == [D EXCEPT !.feedback =
                    Append(@, [query_id |-> c.query_id, score |-> c.score.val])]
          D2 == [D1 EXCEPT !.artwork_interactions =
                    [k \in 1..Len(D1.artwork_interactions) |->
                       IF D1.artwork_interactions[k].query_id = c.query_id
                       THEN [D1.artwork_interactions[k] EXCEPT
                                !.feedback_score = c.score.val]
                       ELSE D1.artwork_interactions[k]]]
      IN IF c.score.type = "str" THEN Outcome(D2, "TypeError", FALSE)
         ELSE LET D3 == FeedbackCounters(D2, c.query_id, c.score.val)
              IN Outcome(D3, "none", ArtworksOfQuery(D3, c.query_id) # {})

(* An INSERT OR REPLACE: a second start of a session replaces its row.      *)
StartSessionBodyReplace(D, c) ==
    IF c.visitor_id = NoVisitor THEN Outcome(D, "IntegrityError", FALSE)
    ELSE
    Outcome([D EXCEPT !.visitor_sessions =
                Put(D.visitor_sessions, c.session_id,
                    [total_queries |-> 0, total_artworks_viewed |-> 0,
                     total_time_spent |-> 0])],
            "none", FALSE)

(* start_session: INSERT INTO visitor_sessions of the five given columns;  *)
(* the counters take their DEFAULT 0.  visitor_id is NOT NULL and          *)
(* session_id is the primary key: the INSERT of a session without a        *)
(* visitor_id, or with a session_id that has a row, raises IntegrityError. *)
StartSessionBody(D, c) ==
    IF c.visitor_id = NoVisitor \/ c.session_id \in DOMAIN D.visitor_sessions
    THEN Outcome(D, "IntegrityError", FALSE)
    ELSE Outcome([D EXCEPT !.visitor_sessions =
                     Put(D.visitor_sessions, c.session_id,
                         [total_queries |-> 0, total_artworks_viewed |-> 0,
                          total_time_spent |-> 0])],
                 "none", FALSE)

(* update_session: `total_queries` in the dict adds it and total_time      *)
(* (0 if absent) to the row; `total_artworks` adds to                      *)
(* total_artworks_viewed.  An UPDATE of a session without a row does       *)
(* nothing.                                                                *)
UpdateSessionBody(D, c) ==
    LET u == c.updates
        S1 == [s \in DOMAIN D.visitor_sessions |->
                 IF s = c.session_id /\ "total_queries" \in u.keys
                 THEN [D.visitor_sessions[s] EXCEPT
                          !.total_queries = @ + u.total_queries,
                          !.total_time_spent =
                             @ + (IF "total_time" \in u.keys
                                  THEN u.total_time ELSE 0)]
                 ELSE D.visitor_sessions[s]]
        S2 == [s \in DOMAIN S1 |->
                 IF s = c.session_id /\ "total_artworks" \in u.keys
                 THEN [S1[s] EXCEPT
                          !.total_artworks_viewed = @ + u.total_artworks]
                 ELSE S1[s]]
    IN Outcome([D EXCEPT !.visitor_sessions = S2], "none", FALSE)

Body(D, c) ==
    CASE c.op = "log_query" -> LogQueryBody(D, c)
      [] c.op = "start_session" -> StartSessionBody(D, c)
      [] c.op = "update_session" -> UpdateSessionBody(D, c)
      [] c.op = "log_artwork_interaction" -> LogArtworkInteractionBody(D, c)
      [] c.op = "record_click" -> RecordClickBody(D, c)
      [] c.op = "record_feedback" -> RecordFeedbackBody(D, c)

----------------------------------------------------------------------------
(* get_connection.                                                         *)

(* A connection in autocommit mode: every statement is committed as it     *)
(* runs.                                                                   *)
CommittedAfterExecuteAutocommit(D, C) == C

(* sqlite3.connect with the default isolation level: a statement run on a  *)
(* connection changes what that connection sees; the committed content of  *)
(* the file stays as it was until conn.commit().                           *)
CommittedAfterExecute(D, C) == D

(* An exit that commits whether or not the body raised.                    *)
GetConnectionExitAlwaysCommit(D, C, e) == C

(* The exit of the block: conn.commit() after a body that ended normally,  *)
(* conn.rollback() in the except branch.  D is the committed content, C    *)
(* what the connection sees, e the pending exception.                      *)
GetConnectionExit(D, C, e) == IF e = "none" THEN C ELSE D

(* A get_connection without the lock.                                      *)
LockAvailableAlways(l, t) == TRUE

(* `with self.lock`: threading.Lock is not reentrant, the thread that      *)
(* holds it waits like any other.                                          *)
LockAvailable(l, t) == l = "free"

(* What a helper that opens its own block (_update_hourly_metrics,         *)
(* _update_artwork_demand, _recalculate_demand_score) would meet once      *)
(* inside it: the hourly update names an undefined variable; the demand    *)
(* helpers write through a second connection while the enclosing one has   *)
(* an open write transaction.                                              *)
HelperException(c) ==
    IF c.op = "log_query" THEN "NameError" ELSE "OperationalError"

----------------------------------------------------------------------------
(* The database file at construction.  On a new path _init_db creates the  *)
(* six tables, all empty (EmptyDB).  __init__ creates the tables only if   *)
(* they do not exist, so on an existing path the program starts from the   *)
(* rows the file holds: query_logs and visitor_sessions rows put there by  *)
(* another writer of the file (the program's own log_query never commits   *)
(* a row), and a sequence of at most MaxSeed interactions, each with the   *)
(* aggregate row that _update_artwork_demand computes for it.  __init__    *)
(* then runs _cleanup_old_data on the file.                                *)

EmptyDB ==
    [query_logs |-> EmptyTable,
     artwork_interactions |-> <<>>,
     artwork_demand |-> EmptyTable,
     visitor_sessions |-> EmptyTable,
     hourly_metrics |-> EmptyTable,
     feedback |-> <<>>]

BaseDB ==
    [EmptyDB EXCEPT
       !.query_logs = [q \in QueryIds |->
                         [session_id |-> "s1", visitor_id |-> "v1",
                          timestamp |-> QueryDay[q]]],
       !.visitor_sessions = [s \in SessionIds |->
                               [total_queries |-> 0,
                                total_artworks_viewed |-> 0,
                                total_time_spent |-> 0]]]

SeedInteractions == [query_id : QueryIds, artwork_id : ArtworkIds, sim : Sims]

SeedSeqs == UNION {[1..n -> SeedInteractions] : n \in 0..MaxSeed}

RECURSIVE SeedDB(_, _)
SeedDB(seeds, n) ==
    IF n = 0 THEN BaseDB
    ELSE LET D == SeedDB(seeds, n - 1)
             i == InteractionRow(<<seeds[n].query_id, n>>, seeds[n].query_id,
                                 seeds[n].artwork_id, seeds[n].sim, FALSE, 0)
         IN UpdateArtworkDemand(
                [D EXCEPT !.artwork_interactions = Append(@, i)], i)

(* The files the program may be constructed on. *)
StartFiles == {EmptyDB} \cup {SeedDB(s, Len(s)) : s \in SeedSeqs}

(* A sweep that also deletes the interactions of the deleted queries.      *)
CleanupOldDataCascade(D, now) ==
    LET cutoff == now - DaysToKeep
        kept == {x \in DOMAIN D.query_logs :
                    ~(D.query_logs[x].timestamp < cutoff)}
    IN [D EXCEPT !.query_logs = [q \in kept |-> D.query_logs[q]],
                 !.artwork_interactions =
                    SelectSeq(D.artwork_interactions,
                              LAMBDA r : r.query_id \in kept)]

(* _cleanup_old_data: DELETE FROM query_logs WHERE timestamp < cutoff,     *)
(* committed by its get_connection block.  No other table is touched, and  *)
(* the connection never turns foreign-key enforcement on.                  *)
CleanupOldData(D, now) ==
    LET cutoff == now - DaysToKeep
    IN [D EXCEPT !.query_logs =
          [q \in {x \in DOMAIN D.query_logs :
                     ~(D.query_logs[x].timestamp < cutoff)} |-> D.query_logs[q]]]

----------------------------------------------------------------------------
(* The `updates` dict of update_session: the keys it has and their values. *)
(* _log_query_analytics passes total_queries 1 and the response time; the  *)
(* method itself takes any dict.                                           *)
SessionUpdate(keys, q, time, a) ==
    [keys |-> keys, total_queries |-> q, total_time |-> time,
     total_artworks |-> a]

SessionUpdates ==
    {SessionUpdate({"total_queries", "total_time"}, 1, 5, 0),
     SessionUpdate({"total_artworks"}, 0, 0, 1),
     SessionUpdate({"total_queries"}, -1, 0, 0)}

(* The calls a request thread can make.                                    *)

Calls ==
    [op : {"log_query"}, query_id : QueryIds,
     session_id : SessionIds, visitor_id : {"v1"}, timestamp : {CallDay}]
    \cup
    {[op |-> "log_artwork_interaction",
      interaction |-> InteractionRow(<<q, 0>>, q, a, sim, clicked, 0)] :
        q \in QueryIds, a \in ArtworkIds, sim \in Sims, clicked \in BOOLEAN}
    \cup
    [op : {"record_click"}, query_id : QueryIds,
     artwork_id : ArtworkIds, duration : Durations]
    \cup
    [op : {"record_feedback"}, query_id : QueryIds, score : ScoreArgs]

(* The calls of the session workload: the session operations, and clicks   *)
(* and feedback with the duration and score as the routes pass them on,    *)
(* which is as posted.                                                     *)
PostedDurations == {5, -5}
PostedScores == [type : {"int"}, val : {0, 3, 6}]

SessionCalls ==
    [op : {"start_session"}, session_id : SessionIds \cup NewSessionIds,
     visitor_id : VisitorIds]
    \cup
    [op : {"update_session"}, session_id : SessionIds, updates : SessionUpdates]
    \cup
    [op : {"record_click"}, query_id : QueryIds,
     artwork_id : ArtworkIds, duration : PostedDurations]
    \cup
    [op : {"record_feedback"}, query_id : QueryIds, score : PostedScores]

Drop(f, t) == [x \in (DOMAIN f) \ {t} |-> f[x]]

(* AnalyticsDB(db_path) on one of the given files: the tables exist or are *)
(* created, the sweep runs, and no request has begun.                      *)
InitOn(files) ==
    /\ db \in {CleanupOldData(f, now) : f \in files, now \in StartDays}
    /\ lock = "free"
    /\ pc = [t \in Threads |-> "idle"]
    /\ call = [t \in Threads |-> NoCall]
    /\ conn = EmptyTable
    /\ exc = [t \in Threads |-> "none"]
    /\ snap = EmptyTable
    /\ ncalls = 0
    /\ calc = NoCalc
    /\ srch = NoSrch /\ disk = NoDisk /\ rag = NoRag

Init == InitOn(StartFiles)

(* A request thread calls a ledger operation and arrives at                *)
(* `with self.lock` of get_connection.                                     *)
CallOp(t) ==
    /\ pc[t] = "idle"
    /\ ncalls < MaxCalls
    /\ pc' = [pc EXCEPT ![t] = "acquire"]
    /\ ncalls' = ncalls + 1
    /\ UNCHANGED <<db, lock, call, conn, exc, snap, calc, srch, disk, rag>>

(* The thread gets the lock, connects, and runs the body of its block up   *)
(* to the end, to an exception, or to a helper's own get_connection.       *)
(* A thread standing at a helper's block gets the lock the same way; the   *)
(* helper's block then ends with HelperException and gives the lock back.  *)
AcquireFrom(t, calls) ==
    /\ pc[t] \in {"acquire", "nested_acquire"}
    /\ LockAvailable(lock, t)
    /\ IF pc[t] = "acquire"
       THEN \E c \in calls :
              LET o == Body(db, c)
              IN /\ call' = [call EXCEPT ![t] = c]
                 /\ conn' = Put(conn, t, o.db)
                 /\ snap' = Put(snap, t, db)
                 /\ exc' = [exc EXCEPT ![t] = o.exc]
                 /\ pc' = [pc EXCEPT ![t] =
                             IF o.nested THEN "nested_acquire" ELSE "body"]
                 /\ db' = CommittedAfterExecute(db, o.db)
                 /\ lock' = t
       ELSE /\ exc' = [exc EXCEPT ![t] = HelperException(call[t])]
            /\ pc' = [pc EXCEPT ![t] = "body"]
            /\ lock' = "free"
            /\ UNCHANGED <<db, call, conn, snap>>
    /\ UNCHANGED <<ncalls, calc, srch, disk, rag>>

(* The end of the block: commit or rollback, close, release the lock, and  *)
(* the call returns (normally, or with the exception re-raised).           *)
Release(t) ==
    /\ pc[t] = "body"
    /\ db' = GetConnectionExit(db, conn[t], exc[t])
    /\ conn' = Drop(conn, t)
    /\ snap' = Drop(snap, t)
    /\ lock' = "free"
    /\ pc' = [pc EXCEPT ![t] = "idle"]
    /\ call' = [call EXCEPT ![t] = NoCall]
    /\ exc' = [exc EXCEPT ![t] = "none"]
    /\ UNCHANGED <<ncalls, calc, srch, disk, rag>>

Spec ==
    Init /\ [][\E t \in Threads :
                 CallOp(t) \/ AcquireFrom(t, Calls) \/ Release(t)]_vars

(* Fair scheduling: a thread that can take the lock infinitely often       *)
(* takes it, and a thread inside its block reaches the end of the block.   *)
FairSpec ==
    /\ Spec
    /\ \A t \in Threads : SF_vars(AcquireFrom(t, Calls)) /\ WF_vars(Release(t))

(* The same ledger under the session workload.  No operation of this      *)
(* workload reads a similarity, so the files it starts from carry one      *)
(* similarity value.                                                       *)
SessionStartFiles ==
    {EmptyDB}
    \cup {SeedDB(s, Len(s)) :
             s \in {x \in SeedSeqs :
                      \A n \in 1..Len(x) : x[n].sim = Ratio(5, 10)}}

InitSession == InitOn(SessionStartFiles)

SpecSession ==
    InitSession
    /\ [][\E t \in Threads :
             CallOp(t) \/ AcquireFrom(t, SessionCalls) \/ Release(t)]_vars

----------------------------------------------------------------------------
(* The score function on its own: inputs drawn from bounded sets, one      *)
(* step that applies it.                                                   *)

(* 16 queries with one click is an input whose exact score, 19.675, lies   *)
(* halfway between two hundredths; VolumeCap + 1 is past the volume cap.   *)
ScoreInputs ==
    [stage : {"in"}, queries : (0..MaxQ) \cup {16, VolumeCap + 1},
     clicks : 0..MaxQ,
     similarity : {FloatZero, Ratio(5, 10), FloatFromInt(1)},
     positive : 0..MaxFb, negative : 0..MaxFb, score : {0}]

InitScore ==
    /\ calc \in ScoreInputs
    /\ db = EmptyDB
    /\ lock = "free"
    /\ pc = [t \in Threads |-> "idle"]
    /\ call = [t \in Threads |-> NoCall]
    /\ conn = EmptyTable
    /\ exc = [t \in Threads |-> "none"]
    /\ snap = EmptyTable
    /\ ncalls = 0
    /\ srch = NoSrch /\ disk = NoDisk /\ rag = NoRag

ApplyScore ==
    /\ calc.stage = "in"
    /\ calc' = [calc EXCEPT !.stage = "out",
                            !.score = CalculateDemandScore(
                                calc.queries, calc.clicks, calc.similarity,
                                calc.positive, calc.negative)]
    /\ UNCHANGED <<db, lock, pc, call, conn, exc, snap, ncalls, srch, disk, rag>>

SpecScore == InitScore /\ [][ApplyScore]_vars

----------------------------------------------------------------------------
(* The semantic index (rag_system.py).                                     *)

MaxTopK == 2                 \* largest top_k argument of a search
Oversample == 3              \* self.index.search(query_embedding, top_k * 3)
(* threshold arguments: the default 0.3, and 0.6                           *)
Thresholds == {(3 * SimScale) \div 10, (6 * SimScale) \div 10}
SimVals == {SimScale \div 5, SimScale \div 2, (4 * SimScale) \div 5}

(* Queries for the concurrent searches: the inner product of a query with  *)
(* the title chunk of an artwork is any value of SimVals, with its other   *)
(* two chunks the middle one.                                              *)
QuerySims(c) ==
    {[n \in 1..(3 * Len(c)) |->
         IF (n - 1) % 3 = 0 THEN f[((n - 1) \div 3) + 1] ELSE SimScale \div 2] :
       f \in [1..Len(c) -> SimVals]}

(* Catalog entries.  The title stands for everything of an artwork but its *)
(* id; A1b is another artwork with the id of A1.                           *)
Artwork(id, title) == [id |-> id, title |-> title]
A1 == Artwork(1, "Sunrise")
A2 == Artwork(2, "Harvest")
A1b == Artwork(1, "Sunrise II")
Catalogs == {<<>>, <<A1>>, <<A1, A2>>, <<A1, A1b>>}

ChunkTypes == <<"title_artist", "description", "details">>

(* A chunk builder that goes kind by kind over the whole catalog.          *)
CreateChunksByKind(artworks) ==
    [n \in 1..(Len(ChunkTypes) * Len(artworks)) |->
        LET a == artworks[((n - 1) % Len(artworks)) + 1]
            ty == ChunkTypes[((n - 1) \div Len(artworks)) + 1]
        IN [artwork_id |-> a.id, chunk_type |-> ty, text |-> <<ty, a.title>>]]

(* _create_chunks: three chunks per catalog entry, in catalog order.  The  *)
(* text of a chunk is a function of its kind and the entry's content.      *)
CreateChunks(artworks) ==
    [n \in 1..(Len(ChunkTypes) * Len(artworks)) |->
        LET a == artworks[((n - 1) \div Len(ChunkTypes)) + 1]
            ty == ChunkTypes[((n - 1) % Len(ChunkTypes)) + 1]
        IN [artwork_id |-> a.id, chunk_type |-> ty, text |-> <<ty, a.title>>]]

(* embedding_model.encode: the vector of a text.                           *)
Encode(text) == [vec |-> text]

(* IndexFlatIP.add of the encoded chunk texts, in chunk order: the index   *)
(* of a chunk array that has chunks (see BuildOutcome for one that has     *)
(* none).                                                                  *)
BuildIndex(chunks) == [n \in 1..Len(chunks) |-> Encode(chunks[n].text)]

EmbedOutcomes == {"ok", "RuntimeError"}
ModelLoads == {"ok", "OSError"}

(* "Generate embeddings" and "Create FAISS index" of _init_vector_index.   *)
(* embed is what embedding_model.encode does with the texts: "ok", or it   *)
(* raises.  The encoding of an empty text list is an array of shape (0,),  *)
(* and faiss.normalize_L2 reads x.shape[1] of it: IndexError, before       *)
(* anything is added to the index or written.                              *)
BuildOutcome(chunks, embed) ==
    IF embed # "ok" THEN [exc |-> embed, at |-> "encode", index |-> <<>>]
    ELSE IF chunks = <<>>
    THEN [exc |-> "IndexError", at |-> "normalize_L2", index |-> <<>>]
    ELSE [exc |-> "none", at |-> "none", index |-> BuildIndex(chunks)]

(* index.search(query_embedding, k): the k best (distance, idx) pairs by   *)
(* inner product, best first, equal distances by idx; idx counts from 0,   *)
(* and the places beyond the index's vector count hold idx -1.  sims[n] is *)
(* the inner product of the query with vector n.                           *)
FaissSearch(sims, k) ==
    LET n == Len(sims)
        rank == [i \in 1..n |-> 1 + Cardinality({j \in 1..n :
                        sims[j] > sims[i] \/ (sims[j] = sims[i] /\ j < i)})]
    IN [p \in 1..k |->
          IF p <= n
          THEN LET i == CHOOSE x \in 1..n : rank[x] = p
               IN [distance |-> sims[i], idx |-> i - 1]
          ELSE [distance |-> 0, idx |-> -1]]

(* next((a for a in self.artworks if a['id'] == artwork_id), None): the    *)
(* position of the first catalog entry with the id, 0 for None.            *)
FirstWithId(artworks, id) ==
    IF \E n \in 1..Len(artworks) : artworks[n].id = id
    THEN CHOOSE n \in 1..Len(artworks) :
            /\ artworks[n].id = id
            /\ \A m \in 1..(n - 1) : artworks[m].id # id
    ELSE 0

(* result = artwork.copy() with similarity_score and matched_chunk set     *)
(* (chunk.text[:100], a function of the chunk's text).                     *)
ResultEntry(artwork, similarity, chunk) ==
    [id |-> artwork.id, title |-> artwork.title,
     similarity_score |-> similarity, matched_chunk |-> chunk.text]

(* The tests of the loop without the one on seen_artwork_ids.              *)
SkipsHitNoSeen(artwork_id, seen, similarity, threshold, at) ==
    similarity < threshold \/ at = 0

(* The three `continue` tests of the loop: the artwork is already in the   *)
(* results, the similarity is under the threshold, the catalog has no      *)
(* entry with the chunk's artwork id.                                      *)
SkipsHit(artwork_id, seen, similarity, threshold, at) ==
    artwork_id \in seen \/ similarity < threshold \/ at = 0

(* A loop that never breaks on the number of results.                      *)
EnoughResultsNever(results, top_k) == FALSE

(* if len(results) >= top_k: break                                         *)
EnoughResults(results, top_k) == Len(results) >= top_k

(* for distance, idx in zip(distances[0], indices[0]): the walk from hit p *)
(* on, with the results and the seen ids so far.  self.chunks[idx] beyond  *)
(* the chunk array raises IndexError.                                      *)
RECURSIVE Walk(_, _, _, _, _, _, _)
Walk(hits, p, results, seen, s, top_k, threshold) ==
    IF p > Len(hits) \/ hits[p].idx = -1 THEN [status |-> "returned", results |-> results]
    ELSE IF hits[p].idx >= Len(s.chunks) THEN [status |-> "IndexError", results |-> <<>>]
    ELSE LET chunk == s.chunks[hits[p].idx + 1]
             at == FirstWithId(s.artworks, chunk.artwork_id)
         IN IF SkipsHit(chunk.artwork_id, seen, hits[p].distance, threshold, at)
            THEN Walk(hits, p + 1, results, seen, s, top_k, threshold)
            ELSE LET r2 == Append(results, ResultEntry(s.artworks[at], hits[p].distance, chunk))
                 IN IF EnoughResults(r2, top_k) THEN [status |-> "returned", results |-> r2]
                    ELSE Walk(hits, p + 1, r2, seen \cup {chunk.artwork_id},
                              s, top_k, threshold)

(* results.sort(key=similarity_score, reverse=True): stable, equal scores  *)
(* keep their order.                                                       *)
SortBySimilarity(results) ==
    LET n == Len(results)
        place == [i \in 1..n |-> 1 + Cardinality({j \in 1..n :
                      \/ results[j].similarity_score > results[i].similarity_score
                      \/ /\ results[j].similarity_score = results[i].similarity_score
                         /\ j < i})]
    IN [p \in 1..n |-> results[CHOOSE i \in 1..n : place[i] = p]]

(* A search that asks the index for top_k hits only.                       *)
SearchNoOversample(s, top_k, threshold, embed) ==
    IF embed # "ok" THEN [status |-> embed, results |-> <<>>]
    ELSE LET w == Walk(FaissSearch(s.sims, top_k), 1, <<>>, {},
                       s, top_k, threshold)
         IN [status |-> w.status, results |-> SortBySimilarity(w.results)]

(* search(query, top_k, threshold) on the system s, for a query whose      *)
(* inner products with the index's vectors are s.sims.  embed is what      *)
(* embedding_model.encode does with the query: "ok", or it raises.         *)
Search(s, top_k, threshold, embed) ==
    IF embed # "ok" THEN [status |-> embed, results |-> <<>>]
    ELSE LET w == Walk(FaissSearch(s.sims, top_k * Oversample), 1, <<>>, {},
                       s, top_k, threshold)
         IN [status |-> w.status, results |-> SortBySimilarity(w.results)]

(* process_query around its call of search: no handler, so what search     *)
(* raises leaves process_query too; otherwise a response is built.         *)
ProcessQueryReply(out) ==
    IF out.status = "returned" THEN "response" ELSE out.status

NoSearch ==
    [top_k |-> 0, threshold |-> 0, embed |-> "none",
     out |-> [status |-> "none", results |-> <<>>]]

(* The running systems a search can meet.  No system runs on an empty      *)
(* catalog: its build raises (BuildOutcome) and leaves no cache to load.   *)
(* A completed build leaves the                                            *)
(* chunks and the vectors of the catalog in hand; a load from vector_cache *)
(* leaves what the files hold, which after an interrupted build of         *)
(* another catalog is the index of that catalog with the chunks of either  *)
(* (see Startup).                                                          *)
System(c, x, y) ==
    [artworks |-> c, chunks |-> CreateChunks(x),
     index |-> BuildIndex(CreateChunks(y))]

Systems ==
    {System(c, c, c) : c \in Catalogs \ {<<>>}}
    \cup {System(<<A1>>, <<A1>>, <<A1, A2>>), System(<<A1>>, <<A1, A2>>, <<A1, A2>>)}

(* A running system, a query given by its inner product with each vector   *)
(* of the index, and what the embedding model does when asked to encode.   *)
InitSearch ==
    /\ srch \in UNION {
         {[stage |-> "up", artworks |-> y.artworks, chunks |-> y.chunks,
           index |-> y.index, sims |-> f, embed |-> e, last |-> NoSearch] :
             f \in [1..Len(y.index) -> SimVals], e \in EmbedOutcomes} :
         y \in Systems}
    /\ disk = NoDisk /\ rag = NoRag
    /\ db = EmptyDB
    /\ lock = "free"
    /\ pc = [t \in Threads |-> "idle"]
    /\ call = [t \in Threads |-> NoCall]
    /\ conn = EmptyTable
    /\ exc = [t \in Threads |-> "none"]
    /\ snap = EmptyTable
    /\ ncalls = 0
    /\ calc = NoCalc

(* One call of search, from its first statement to its return or raise.    *)
SearchCall ==
    /\ srch.stage = "up"
    /\ \E k \in 1..MaxTopK, th \in Thresholds :
         srch' = [srch EXCEPT
                    !.last = [top_k |-> k, threshold |-> th,
                              embed |-> srch.embed,
                              out |-> Search(srch, k, th, srch.embed)]]
    /\ UNCHANGED <<db, lock, pc, call, conn, exc, snap, ncalls, calc, disk, rag>>

SpecSearch == InitSearch /\ [][SearchCall]_vars

----------------------------------------------------------------------------
(* search under concurrent requests.  Each request thread runs search      *)
(* statement by statement on the one UbuntuRAGSystem: self.artworks,       *)
(* self.chunks and self.index are shared, everything else is local to the  *)
(* call.  Dicts are objects of a heap: the catalog list holds references   *)
(* <<"catalog", 0, n>>, and the k-th dict the c-th call creates has        *)
(* reference <<"result", c, k>>; a result list is a list of references.    *)
(* A dict of the catalog has no similarity_score and no matched_chunk,     *)
(* written -1 and <<>>.  Each behaviour has as many search calls as there  *)
(* are request threads.                                                    *)

Queries == {"qa", "qb"}

NoFrame ==
    [at |-> "idle", n |-> 0, query |-> "none", top_k |-> 0, threshold |-> 0,
     hits |-> <<>>, p |-> 0, results |-> <<>>, seen |-> {}]

(* The dicts a list of references points to.                               *)
Dicts(heap, refs) == [n \in 1..Len(refs) |-> heap[refs[n]]]

(* result = artwork: the catalog's own dict, no copy.                      *)
ArtworkCopyAliased(heap, ref, new) == [heap |-> heap, ref |-> ref]

(* result = artwork.copy(): a new dict with the keys and values of the     *)
(* artwork's.                                                              *)
ArtworkCopy(heap, ref, new) == [heap |-> Put(heap, new, heap[ref]), ref |-> new]

(* A running system built from a catalog with entries, and two queries,    *)
(* each given by its inner products with the vectors of the index: those   *)
(* of "qb" are those of "qa" in the opposite order.                        *)
InitSearchThreads ==
    /\ srch \in UNION {
         {[stage |-> "serving",
           heap |-> [r \in {<<"catalog", 0, n>> : n \in 1..Len(c)} |->
                       [id |-> c[r[3]].id, title |-> c[r[3]].title,
                        similarity_score |-> 0 - 1, matched_chunk |-> <<>>]],
           artworks |-> [n \in 1..Len(c) |-> <<"catalog", 0, n>>],
           chunks |-> CreateChunks(c),
           index |-> BuildIndex(CreateChunks(c)),
           sims |-> [q \in Queries |->
                       IF q = "qa" THEN f
                       ELSE [n \in 1..Len(f) |-> f[Len(f) + 1 - n]]],
           frame |-> [t \in Threads |-> NoFrame],
           begun |-> 0, returned |-> <<>>] :
             f \in QuerySims(c)} :
         c \in Catalogs \ {<<>>}}
    /\ disk = NoDisk /\ rag = NoRag
    /\ db = EmptyDB
    /\ lock = "free"
    /\ pc = [t \in Threads |-> "idle"]
    /\ call = [t \in Threads |-> NoCall]
    /\ conn = EmptyTable
    /\ exc = [t \in Threads |-> "none"]
    /\ snap = EmptyTable
    /\ ncalls = 0
    /\ calc = NoCalc

(* Thread t calls search(query, top_k, threshold): the query is encoded    *)
(* and self.index is searched for top_k * 3 hits.  An encode that raises   *)
(* ends the call there.                                                    *)
SearchEnter(t) ==
    /\ srch.stage = "serving"
    /\ srch.frame[t].at = "idle"
    /\ srch.begun < Cardinality(Threads)
    /\ \E q \in Queries, k \in 1..MaxTopK, th \in Thresholds,
          embed \in EmbedOutcomes :
         srch' = [srch EXCEPT
            !.begun = @ + 1,
            !.frame[t] =
               IF embed # "ok" THEN NoFrame
               ELSE [at |-> "loop", n |-> srch.begun + 1, query |-> q,
                     top_k |-> k, threshold |-> th,
                     hits |-> FaissSearch(srch.sims[q], k * Oversample),
                     p |-> 1, results |-> <<>>, seen |-> {}]]
    /\ UNCHANGED <<db, lock, pc, call, conn, exc, snap, ncalls, calc, disk, rag>>

(* One turn of `for distance, idx in zip(distances[0], indices[0])` in     *)
(* thread t: the loop ends (no hit left, or idx -1), the hit is skipped,   *)
(* or a copy of the artwork's dict gets its two keys and is appended, and  *)
(* the loop breaks when top_k results are there.                           *)
SearchLoop(t) ==
    /\ srch.stage = "serving"
    /\ srch.frame[t].at = "loop"
    /\ LET f == srch.frame[t]
           catalog == Dicts(srch.heap, srch.artworks)
       IN IF f.p > Len(f.hits) \/ f.hits[f.p].idx = -1
          THEN srch' = [srch EXCEPT !.frame[t].at = "sort"]
          ELSE IF f.hits[f.p].idx >= Len(srch.chunks)
          THEN srch' = [srch EXCEPT !.frame[t] = NoFrame]    \* IndexError
          ELSE
            LET chunk == srch.chunks[f.hits[f.p].idx + 1]
                similarity == f.hits[f.p].distance
                at == FirstWithId(catalog, chunk.artwork_id)
            IN IF SkipsHit(chunk.artwork_id, f.seen, similarity,
                           f.threshold, at)
               THEN srch' = [srch EXCEPT !.frame[t].p = @ + 1]
               ELSE
                 LET copy == ArtworkCopy(srch.heap, srch.artworks[at],
                                <<"result", f.n, Len(f.results) + 1>>)
                     results == Append(f.results, copy.ref)
                 IN srch' = [srch EXCEPT
                      !.heap = [copy.heap EXCEPT
                                  ![copy.ref].similarity_score = similarity,
                                  ![copy.ref].matched_chunk = chunk.text],
                      !.frame[t].results = results,
                      !.frame[t].seen = @ \cup {chunk.artwork_id},
                      !.frame[t].p = @ + 1,
                      !.frame[t].at = IF EnoughResults(results, f.top_k)
                                      THEN "sort" ELSE "loop"]
    /\ UNCHANGED <<db, lock, pc, call, conn, exc, snap, ncalls, calc, disk, rag>>

(* results.sort(...) on the scores the dicts hold now, and return.         *)
SearchReturn(t) ==
    /\ srch.stage = "serving"
    /\ srch.frame[t].at = "sort"
    /\ LET f == srch.frame[t]
           keyed == [n \in 1..Len(f.results) |->
                       [ref |-> f.results[n],
                        similarity_score |->
                           srch.heap[f.results[n]].similarity_score]]
           sorted == SortBySimilarity(keyed)
       IN srch' = [srch EXCEPT
            !.frame[t] = NoFrame,
            !.returned = Append(@,
               [n |-> f.n, query |-> f.query, top_k |-> f.top_k,
                threshold |-> f.threshold,
                results |-> [n \in 1..Len(sorted) |-> sorted[n].ref]])]
    /\ UNCHANGED <<db, lock, pc, call, conn, exc, snap, ncalls, calc, disk, rag>>

SpecSearchThreads ==
    InitSearchThreads
    /\ [][\E t \in Threads :
             SearchEnter(t) \/ SearchLoop(t) \/ SearchReturn(t)]_vars

----------------------------------------------------------------------------
(* Startup of the semantic index: the catalog file, vector_cache, and the  *)
(* build and persist sequence of _init_vector_index.                       *)

(* A file: missing, present but not readable as what it should hold, or    *)
(* holding a content.                                                      *)
NoFile(empty) == [state |-> "missing", content |-> empty]
BadFile(empty) == [state |-> "corrupt", content |-> empty]
Stored(x) == [state |-> "ok", content |-> x]

NoMetadata == [data_hash |-> <<>>, chunk_count |-> 0]

CatalogFiles ==
    {NoFile(<<>>), BadFile(<<>>)} \cup {Stored(c) : c \in Catalogs}

(* hashlib.sha256(json.dumps(self.artworks, sort_keys=True)): the text     *)
(* that is hashed, entry after entry, each with its keys in sorted order.  *)
Fingerprint(artworks) ==
    [n \in 1..Len(artworks) |->
        <<<<"id", artworks[n].id>>, <<"title", artworks[n].title>>>>]

(* _load_artworks: FileNotFoundError is caught and gives an empty catalog; *)
(* any other failure of open or json.load leaves _load_artworks.           *)
LoadArtworks(file) ==
    IF file.state = "missing" THEN [exc |-> "none", artworks |-> <<>>]
    ELSE IF file.state = "corrupt"
    THEN [exc |-> "JSONDecodeError", artworks |-> <<>>]
    ELSE [exc |-> "none", artworks |-> file.content]

(* The cache test of _init_vector_index.  "load": both files exist,        *)
(* metadata.pkl opens and unpickles, its data_hash is the current one,     *)
(* and faiss.read_index and the unpickling of the chunks succeed.  An      *)
(* exception on the way is caught and leads, like a missing file or        *)
(* another data_hash, to "build".                                          *)
CacheCheck(d, current_hash) ==
    IF d.index_file.state = "missing" \/ d.chunks_file.state = "missing"
    THEN "build"
    ELSE IF d.metadata.state # "ok" THEN "build"
    ELSE IF d.metadata.content.data_hash # current_hash THEN "build"
    ELSE IF d.index_file.state # "ok" \/ d.chunks_file.state # "ok" THEN "build"
    ELSE "load"

Down ==
    [stage |-> "down", artworks |-> <<>>, chunks |-> <<>>, index |-> <<>>,
     path |-> "none", exc |-> "none"]

(* The machine before the first start: any catalog file, an empty          *)
(* vector_cache.                                                           *)
InitIndex ==
    /\ disk \in {[stage |-> "on", catalog |-> f, index_file |-> NoFile(<<>>),
                  chunks_file |-> NoFile(<<>>),
                  metadata |-> NoFile(NoMetadata)] : f \in CatalogFiles}
    /\ rag = Down
    /\ srch = NoSrch
    /\ db = EmptyDB
    /\ lock = "free"
    /\ pc = [t \in Threads |-> "idle"]
    /\ call = [t \in Threads |-> NoCall]
    /\ conn = EmptyTable
    /\ exc = [t \in Threads |-> "none"]
    /\ snap = EmptyTable
    /\ ncalls = 0
    /\ calc = NoCalc

(* UbuntuRAGSystem(): _load_artworks, the SentenceTransformer             *)
(* constructor, then _init_vector_index up to the return of its cache      *)
(* branch or to the first write of its build branch.  model is what the    *)
(* constructor does ("ok", or it raises), embed what encode does with the  *)
(* chunk texts.  A start that raises leaves no system; path then names     *)
(* the statement that raised.                                              *)
Startup ==
    /\ rag.stage = "down"
    /\ \E model \in ModelLoads, embed \in EmbedOutcomes :
         LET l == LoadArtworks(disk.catalog)
             current_hash == Fingerprint(l.artworks)
             chunks == CreateChunks(l.artworks)
             check == CacheCheck(disk, current_hash)
             b == BuildOutcome(chunks, embed)
             Failed(e, at) ==
                 [Down EXCEPT !.stage = "failed", !.exc = e, !.path = at]
         IN rag' =
              IF l.exc # "none" THEN Failed(l.exc, "load_artworks")
              ELSE IF model # "ok" THEN Failed(model, "SentenceTransformer")
              ELSE IF check = "load"
              THEN [stage |-> "up", artworks |-> l.artworks,
                    chunks |-> disk.chunks_file.content,
                    index |-> disk.index_file.content,
                    path |-> "loaded", exc |-> "none"]
              ELSE IF b.exc # "none" THEN Failed(b.exc, b.at)
              ELSE [stage |-> "write_index", artworks |-> l.artworks,
                    chunks |-> chunks, index |-> b.index,
                    path |-> "built", exc |-> "none"]
    /\ UNCHANGED <<disk, db, lock, pc, call, conn, exc, snap, ncalls, calc, srch>>

(* faiss.write_index(self.index, index_file)                               *)
WriteIndex ==
    /\ rag.stage = "write_index"
    /\ disk' = [disk EXCEPT !.index_file = Stored(rag.index)]
    /\ rag' = [rag EXCEPT !.stage = "write_chunks"]
    /\ UNCHANGED <<db, lock, pc, call, conn, exc, snap, ncalls, calc, srch>>

(* pickle.dump(self.chunks, f) into chunks.pkl                             *)
WriteChunks ==
    /\ rag.stage = "write_chunks"
    /\ disk' = [disk EXCEPT !.chunks_file = Stored(rag.chunks)]
    /\ rag' = [rag EXCEPT !.stage = "write_metadata"]
    /\ UNCHANGED <<db, lock, pc, call, conn, exc, snap, ncalls, calc, srch>>

(* pickle.dump(metadata, f) into metadata.pkl; __init__ returns.           *)
WriteMetadata ==
    /\ rag.stage = "write_metadata"
    /\ disk' = [disk EXCEPT !.metadata =
                  Stored([data_hash |-> Fingerprint(rag.artworks),
                          chunk_count |-> Len(rag.chunks)])]
    /\ rag' = [rag EXCEPT !.stage = "up"]
    /\ UNCHANGED <<db, lock, pc, call, conn, exc, snap, ncalls, calc, srch>>

(* The process ends: it is stopped, or it dies inside the persist          *)
(* sequence, where the file being written may be left torn.                *)
ProcessEnds ==
    /\ rag.stage # "down"
    /\ rag' = Down
    /\ \E torn \in BOOLEAN :
         disk' = IF ~torn THEN disk
                 ELSE IF rag.stage = "write_index"
                 THEN [disk EXCEPT !.index_file = BadFile(<<>>)]
                 ELSE IF rag.stage = "write_chunks"
                 THEN [disk EXCEPT !.chunks_file = BadFile(<<>>)]
                 ELSE IF rag.stage = "write_metadata"
                 THEN [disk EXCEPT !.metadata = BadFile(NoMetadata)]
                 ELSE disk
    /\ UNCHANGED <<db, lock, pc, call, conn, exc, snap, ncalls, calc, srch>>

(* Between two runs the catalog file is replaced, removed or damaged.      *)
EditCatalog ==
    /\ rag.stage = "down"
    /\ \E f \in CatalogFiles : disk' = [disk EXCEPT !.catalog = f]
    /\ disk' # disk
    /\ UNCHANGED <<rag, db, lock, pc, call, conn, exc, snap, ncalls, calc, srch>>

(* Between two runs one file of vector_cache is removed.                   *)
RemoveCacheFile ==
    /\ rag.stage = "down"
    /\ \/ disk' = [disk EXCEPT !.index_file = NoFile(<<>>)]
       \/ disk' = [disk EXCEPT !.chunks_file = NoFile(<<>>)]
       \/ disk' = [disk EXCEPT !.metadata = NoFile(NoMetadata)]
    /\ disk' # disk
    /\ UNCHANGED <<rag, db, lock, pc, call, conn, exc, snap, ncalls, calc, srch>>

SpecIndex ==
    InitIndex
    /\ [][\/ Startup \/ WriteIndex \/ WriteChunks \/ WriteMetadata
          \/ ProcessEnds \/ EditCatalog \/ RemoveCacheFile]_vars

----------------------------------------------------------------------------
(* Claims                                                                  *)

(* C1: under fair scheduling every ledger call that has been made          *)
(* eventually returns; no call stays blocked on the persistence lock, not  *)
(* even when the calling thread itself holds it through an enclosing       *)
(* get_connection block.                                                   *)
C1_EveryCallReturns ==
    \A t \in Threads : (pc[t] # "idle") ~> (pc[t] = "idle")

(* The step in which thread t's call of operation o returns.               *)
Returns(t, o) == pc[t] = "body" /\ call[t].op = o /\ pc'[t] = "idle"

(* C2: a processed log_artwork_interaction call on an artwork leaves the   *)
(* artwork with an ArtworkDemand row that counts the call: from no row,    *)
(* total_queries = 1, total_clicks = c, avg_similarity = s; from a row     *)
(* over n calls, total_queries = n + 1, total_clicks grown by c, and       *)
(* avg_similarity the mean of the n + 1 similarities, (mean * n + s) /     *)
(* (n + 1) in float arithmetic.  By induction: after N calls N, the sum of *)
(* the c_i, the mean.                                                      *)
C2_DemandArithmetic ==
    [][\A t \in Threads :
         Returns(t, "log_artwork_interaction") =>
           LET i == call[t].interaction
               a == i.artwork_id
               c == IF i.was_clicked THEN 1 ELSE 0
           IN /\ a \in DOMAIN db'.artwork_demand
              /\ IF a \in DOMAIN db.artwork_demand
                 THEN LET r == db.artwork_demand[a]
                          r2 == db'.artwork_demand[a]
                          sum == FloatAdd(
                                   FloatMul(r.avg_similarity,
                                            FloatFromInt(r.total_queries)),
                                   i.similarity_score)
                      IN /\ r2.total_queries = r.total_queries + 1
                         /\ r2.total_clicks = r.total_clicks + c
                         /\ r2.avg_similarity
                               = FloatDivInt(sum, r.total_queries + 1)
                 ELSE LET r2 == db'.artwork_demand[a]
                      IN /\ r2.total_queries = 1
                         /\ r2.total_clicks = c
                         /\ r2.avg_similarity = i.similarity_score]_vars

(* C3: in every committed state every ArtworkDemand row has                *)
(* total_clicks <= total_queries.                                          *)
C3_ClicksAtMostQueries ==
    \A a \in DOMAIN db.artwork_demand :
        db.artwork_demand[a].total_clicks <= db.artwork_demand[a].total_queries

(* C4: in every committed state every ArtworkDemand row's demand_score is  *)
(* the score formula applied to the row's five aggregate fields.           *)
C4_ScoreIsFormulaOfFields ==
    \A a \in DOMAIN db.artwork_demand :
        LET r == db.artwork_demand[a]
        IN r.demand_score =
             CalculateDemandScore(r.total_queries, r.total_clicks,
                                  r.avg_similarity, r.positive_feedback,
                                  r.negative_feedback)

(* C5: for all non-negative integer queries, clicks, positive, negative    *)
(* and every similarity in [0, 1], _calculate_demand_score returns a       *)
(* value in [0, 100] (0..10000 hundredths).                                *)
C5_ScoreInRange ==
    calc.stage = "out" => (0 <= calc.score /\ calc.score <= 10000)

(* C6: record_click on an artwork that has an ArtworkDemand row and a      *)
(* matching interaction adds 1 to total_clicks and the duration to         *)
(* total_time_viewed, and leaves a stored demand_score strictly greater    *)
(* than the one stored before.                                             *)
C6_ClickRaisesScore ==
    [][\A t \in Threads :
         (/\ Returns(t, "record_click")
          /\ call[t].artwork_id \in DOMAIN db.artwork_demand
          /\ call[t].artwork_id \in ArtworksOfQuery(db, call[t].query_id))
         => LET a == call[t].artwork_id
                r == db.artwork_demand[a]
                r2 == db'.artwork_demand[a]
            IN /\ r2.total_clicks = r.total_clicks + 1
               /\ r2.total_time_viewed = r.total_time_viewed + call[t].duration
               /\ r2.demand_score > r.demand_score]_vars

(* Thread t is inside record_feedback, past the counter statements, with  *)
(* an integer score.                                                       *)
FeedbackApplied(t) ==
    /\ pc[t] \in {"body", "nested_acquire"}
    /\ call[t].op = "record_feedback"
    /\ call[t].score.type = "int"
    /\ exc[t] = "none"

(* C7: feedback partitioning.  Once record_feedback has run its counter    *)
(* statements, against the rows as they were when the call began: a score  *)
(* of 1 or 2 has changed no positive_feedback, a score of 4 or 5 no        *)
(* negative_feedback, and a score of 3 neither counter, on any row; the    *)
(* counter of the score's own side has grown by one on the artworks of     *)
(* the query and by nothing elsewhere.                                     *)
C7_FeedbackPartition ==
    \A t \in Threads :
      FeedbackApplied(t) =>
        \A a \in DOMAIN snap[t].artwork_demand :
          LET old == snap[t].artwork_demand[a]
              new == conn[t].artwork_demand[a]
              v == call[t].score.val
              hit == IF a \in ArtworksOfQuery(snap[t], call[t].query_id)
                     THEN 1 ELSE 0
          IN /\ v <= 2 => /\ new.positive_feedback = old.positive_feedback
                          /\ new.negative_feedback = old.negative_feedback + hit
             /\ v >= 4 => /\ new.negative_feedback = old.negative_feedback
                          /\ new.positive_feedback = old.positive_feedback + hit
             /\ v = 3 => /\ new.positive_feedback = old.positive_feedback
                         /\ new.negative_feedback = old.negative_feedback

C7_Witness ==
    \E t \in Threads :
      /\ FeedbackApplied(t)
      /\ call[t].score.val = 1
      /\ \E a \in DOMAIN snap[t].artwork_demand :
            conn[t].artwork_demand[a].negative_feedback
              = snap[t].artwork_demand[a].negative_feedback + 1

(* C8: under fair scheduling, record_feedback with score >= 4 on a query   *)
(* whose interactions reference artwork a takes effect: the committed row  *)
(* of a comes to hold a positive_feedback above the n it held when the     *)
(* call began, with a demand_score recomputed from the row's fields.       *)
C8_PositiveFeedbackTakesEffect ==
    \A t \in Threads : \A a \in ArtworkIds : \A n \in 0..MaxCalls :
      (/\ FeedbackApplied(t)
       /\ call[t].score.val >= 4
       /\ a \in ArtworksOfQuery(snap[t], call[t].query_id)
       /\ a \in DOMAIN snap[t].artwork_demand
       /\ snap[t].artwork_demand[a].positive_feedback = n)
      ~> (/\ a \in DOMAIN db.artwork_demand
          /\ db.artwork_demand[a].positive_feedback > n
          /\ LET r == db.artwork_demand[a]
             IN r.demand_score =
                  CalculateDemandScore(r.total_queries, r.total_clicks,
                                       r.avg_similarity, r.positive_feedback,
                                       r.negative_feedback))

(* C9: no reader sees a write sequence partially applied.  While an        *)
(* operation's connection is open, the committed content, which is all a   *)
(* reader can see, is what it was when the operation began; the            *)
(* operation's writes appear together at its commit or not at all.         *)
C9_NothingVisibleMidFlight ==
    \A t \in DOMAIN conn : db = snap[t]

C9_Witness ==
    \E t \in DOMAIN conn :
      /\ call[t].op = "record_feedback"
      /\ pc[t] = "nested_acquire"
      /\ \E a \in DOMAIN db.artwork_demand :
            /\ conn[t].artwork_demand[a].positive_feedback
                 = db.artwork_demand[a].positive_feedback + 1
            /\ conn[t].artwork_demand[a].demand_score
                 = db.artwork_demand[a].demand_score
      /\ Len(conn[t].feedback) = Len(db.feedback) + 1

(* C10: an operation whose body raises is rolled back in full: when the    *)
(* call returns with the exception, all six tables are as they were when   *)
(* the operation began.                                                    *)
C10_FailureRollsBack ==
    [][\A t \in Threads :
         (pc[t] = "body" /\ exc[t] # "none" /\ pc'[t] = "idle")
         => db' = snap[t]]_vars

C10_Witness ==
    \E t \in Threads :
      /\ pc[t] = "body"
      /\ exc[t] = "TypeError"
      /\ call[t].op = "record_feedback"
      /\ conn[t].feedback # snap[t].feedback
      /\ conn[t].artwork_interactions # snap[t].artwork_interactions
      /\ db = snap[t]


(* The query a ledger call is about.                                       *)
QueryOfCall(c) ==
    IF c.op = "log_artwork_interaction" THEN c.interaction.query_id
    ELSE c.query_id

(* C11: in every reachable state of the ledger every ArtworkInteraction    *)
(* row's query_id is the id of an existing QueryLog row, whatever calls    *)
(* and retention sweeps have run.                                          *)
C11_InteractionsReferToQueries ==
    \A k \in 1..Len(db.artwork_interactions) :
        db.artwork_interactions[k].query_id \in DOMAIN db.query_logs

(* C12: a log_artwork_interaction or record_feedback call whose query_id   *)
(* has no QueryLog row returns with an error and leaves the                *)
(* ArtworkInteraction, Feedback and ArtworkDemand tables as they were.     *)
C12_UnknownQueryRejected ==
    [][\A t \in Threads :
         /\ Returns(t, "log_artwork_interaction") \/ Returns(t, "record_feedback")
         /\ QueryOfCall(call[t]) \notin DOMAIN db.query_logs
         => /\ exc[t] # "none"
            /\ db'.artwork_interactions = db.artwork_interactions
            /\ db'.feedback = db.feedback
            /\ db'.artwork_demand = db.artwork_demand]_vars


(* The search just made has returned a result sequence.                    *)
Returned == srch.stage = "up" /\ srch.last.out.status = "returned"

(* C13: the result of search(query, top_k, threshold) holds at most one    *)
(* entry per artwork id, and every entry's similarity_score is at least    *)
(* threshold.                                                              *)
C13_DistinctAndAboveThreshold ==
    Returned =>
      LET r == srch.last.out.results
      IN /\ \A i, j \in 1..Len(r) : r[i].id = r[j].id => i = j
         /\ \A i \in 1..Len(r) : r[i].similarity_score >= srch.last.threshold

(* A search that met two eligible chunks of the artwork it returned alone  *)
(* and a chunk under the threshold.                                        *)
C13_Witness ==
    /\ Returned
    /\ Len(srch.last.out.results) = 1
    /\ srch.last.top_k = 2
    /\ Len(srch.index) = Len(srch.chunks)
    /\ \E m, n \in 1..Len(srch.chunks) :
          /\ m # n
          /\ srch.chunks[m].artwork_id = srch.chunks[n].artwork_id
          /\ srch.chunks[m].artwork_id = srch.last.out.results[1].id
          /\ srch.sims[m] >= srch.last.threshold
          /\ srch.sims[n] >= srch.last.threshold
    /\ \E n \in 1..Len(srch.chunks) :
          /\ srch.sims[n] < srch.last.threshold
          /\ srch.chunks[n].artwork_id # srch.last.out.results[1].id

(* C14: search(query, top_k, threshold) returns at most top_k results, in  *)
(* non-increasing order of similarity_score.                               *)
C14_AtMostTopKOrdered ==
    Returned =>
      LET r == srch.last.out.results
      IN /\ Len(r) <= srch.last.top_k
         /\ \A i \in 1..(Len(r) - 1) :
               r[i].similarity_score >= r[i + 1].similarity_score

(* A search with top_k = 1 over an index that holds eligible chunks of two *)
(* artworks of the catalog, with different similarities.                   *)
C14_Witness ==
    /\ Returned
    /\ srch.last.top_k = 1
    /\ Len(srch.last.out.results) = 1
    /\ Len(srch.index) = Len(srch.chunks)
    /\ \E n \in 1..Len(srch.chunks) :
          /\ srch.chunks[n].artwork_id # srch.last.out.results[1].id
          /\ FirstWithId(srch.artworks, srch.chunks[n].artwork_id) # 0
          /\ srch.sims[n] >= srch.last.threshold
          /\ srch.sims[n] < srch.last.out.results[1].similarity_score

(* The result sequences of the calls that have returned, as the dicts of   *)
(* the heap show them.                                                     *)
ReturnedResults(x, n) == Dicts(x.heap, x.returned[n].results)

(* C15: a search call leaves the index, the chunk array and the catalog    *)
(* (the list and the dicts it holds) as they were, and any two search      *)
(* calls with the same query, top_k and threshold return identical result  *)
(* sequences, in whatever order or interleaving with other searches they   *)
(* run: the sequence the call returns when it runs alone.                  *)
C15_SearchReadOnlyDeterministic ==
    [][srch.stage = "serving" =>
         /\ srch'.artworks = srch.artworks
         /\ Dicts(srch'.heap, srch'.artworks) = Dicts(srch.heap, srch.artworks)
         /\ srch'.chunks = srch.chunks
         /\ srch'.index = srch.index
         /\ \A i, j \in 1..Len(srch'.returned) :
               /\ srch'.returned[i].query = srch'.returned[j].query
               /\ srch'.returned[i].top_k = srch'.returned[j].top_k
               /\ srch'.returned[i].threshold = srch'.returned[j].threshold
               => ReturnedResults(srch', i) = ReturnedResults(srch', j)
         /\ \A i \in 1..Len(srch'.returned) :
               LET r == srch'.returned[i]
                   alone == Search(
                     [artworks |-> [n \in 1..Len(srch.artworks) |->
                          Artwork(srch.heap[srch.artworks[n]].id,
                                  srch.heap[srch.artworks[n]].title)],
                      chunks |-> srch.chunks, sims |-> srch.sims[r.query]],
                     r.top_k, r.threshold, "ok")
               IN ReturnedResults(srch', i) = alone.results]_vars

(* Two calls with the same arguments have returned two artworks each, and  *)
(* they ran interleaved: the call that began second ran from its entry to  *)
(* its return while the call that began first was inside search.           *)
C15_Witness ==
    /\ srch.stage = "serving"
    /\ Len(srch.returned) = 2
    /\ srch.returned[1].n = 2 /\ srch.returned[2].n = 1
    /\ srch.returned[1].query = srch.returned[2].query
    /\ srch.returned[1].top_k = srch.returned[2].top_k
    /\ srch.returned[1].threshold = srch.returned[2].threshold
    /\ Len(srch.returned[1].results) = 2
    /\ srch.returned[1].results # srch.returned[2].results


(* C17: when the embedding function is unavailable or raises during a      *)
(* search, search yields an empty result instead of an exception, and      *)
(* process_query still returns a response.                                 *)
C17_SearchFailsClosed ==
    srch.stage = "up" /\ srch.last.embed \notin {"ok", "none"} =>
      /\ srch.last.out.status = "returned"
      /\ srch.last.out.results = <<>>
      /\ ProcessQueryReply(srch.last.out) = "response"


(* C16: when the catalog file cannot be read at startup (missing, or       *)
(* present but unreadable or unparseable) initialisation does not fail,    *)
(* the system runs with zero artworks, and every search returns an empty   *)
(* sequence.  Stated for starts on which the embedding model loaded and    *)
(* encoded.                                                                *)
C16_UnreadableCatalogRunsEmpty ==
    (/\ rag.stage # "down" /\ disk.catalog.state # "ok"
     /\ rag.path \notin {"SentenceTransformer", "encode"})
    =>
      /\ rag.stage # "failed"
      /\ rag.artworks = <<>>
      /\ rag.stage = "up" =>
           \A f \in [1..Len(rag.index) -> SimVals] :
             \A k \in 1..MaxTopK, th \in Thresholds :
               Search([artworks |-> rag.artworks, chunks |-> rag.chunks,
                       sims |-> f], k, th, "ok")
                 = [status |-> "returned", results |-> <<>>]

(* The step in which _init_vector_index runs with a working embedding      *)
(* model: a start whose catalog load and model load did not raise and      *)
(* whose encode, if it was called, returned.                               *)
InitVectorIndexRuns ==
    /\ rag.stage = "down" /\ rag'.stage # "down"
    /\ rag'.path \notin {"load_artworks", "SentenceTransformer", "encode"}

(* The step took the cache: index and chunk array are the files'           *)
(* contents, nothing was embedded, nothing was written.                    *)
TookCache ==
    /\ rag'.stage = "up" /\ rag'.path = "loaded"
    /\ rag'.index = disk.index_file.content
    /\ rag'.chunks = disk.chunks_file.content
    /\ disk' = disk

(* The step began a build from the current catalog.                        *)
BeganBuild ==
    /\ rag'.stage = "write_index" /\ rag'.path = "built"
    /\ rag'.chunks = CreateChunks(rag'.artworks)
    /\ rag'.index = BuildIndex(rag'.chunks)

(* The step in which a build ends leaves the three files written by this   *)
(* build, the metadata with the current fingerprint.                       *)
BuildEndsWritten ==
    rag.stage = "write_metadata" /\ rag'.stage = "up" =>
      /\ disk'.index_file = Stored(rag'.index)
      /\ disk'.chunks_file = Stored(rag'.chunks)
      /\ disk'.metadata.state = "ok"
      /\ disk'.metadata.content.data_hash = Fingerprint(rag'.artworks)

(* C18: at startup the index and the chunk array are taken from           *)
(* the cache, with no embedding and no write, exactly when index file,     *)
(* chunk file and metadata record all exist and the stored fingerprint is  *)
(* the fingerprint of the current catalog; in every other case the index   *)
(* is rebuilt from the current catalog and the three are rewritten.        *)
C18_LoadIffCachePresent ==
    [][/\ InitVectorIndexRuns =>
            IF /\ disk.index_file.state # "missing"
               /\ disk.chunks_file.state # "missing"
               /\ disk.metadata.state = "ok"
               /\ disk.metadata.content.data_hash = Fingerprint(rag'.artworks)
            THEN TookCache ELSE BeganBuild
       /\ BuildEndsWritten]_vars

(* C19: after every startup the active index has as many vectors as the    *)
(* chunk array has chunks and both are those of the current catalog,       *)
(* wherever an earlier run died inside the persist sequence.               *)
C19_LoadedPairFromOneBuild ==
    rag.stage = "up" =>
      /\ Len(rag.index) = Len(rag.chunks)
      /\ rag.chunks = CreateChunks(rag.artworks)
      /\ rag.index = BuildIndex(rag.chunks)

(* The cache holds something, and a file is missing or unreadable or the   *)
(* stored fingerprint is not the current one.                              *)
CacheInconsistent(d, current_hash) ==
    /\ {d.index_file.state, d.chunks_file.state, d.metadata.state} # {"missing"}
    /\ \/ {d.index_file.state, d.chunks_file.state, d.metadata.state} # {"ok"}
       \/ d.metadata.content.data_hash # current_hash

(* C20: a start that finds the cache inconsistent does not raise; it       *)
(* treats the cache as missed and rebuilds from the current catalog.       *)
C20_InconsistentCacheRebuilds ==
    [][InitVectorIndexRuns
         /\ CacheInconsistent(disk, Fingerprint(LoadArtworks(disk.catalog).artworks))
       => /\ rag'.stage # "failed"
          /\ BeganBuild
          /\ rag'.artworks = LoadArtworks(disk.catalog).artworks]_vars

(***************************************************************************)
(* The catalog fingerprint of _init_vector_index, on catalogs as json.load *)
(* returns them: a list of objects, each object keeping its keys in the    *)
(* order of the file.                                                      *)
(***************************************************************************)
MaxArtworks == 2

(* The keys of an artwork object in the order sort_keys=True writes them.  *)
JsonKeys == <<"id", "title">>

JsonObject(first, id, title) ==
    IF first = "id" THEN <<<<"id", id>>, <<"title", title>>>>
    ELSE <<<<"title", title>>, <<"id", id>>>>

JsonObjects ==
    {JsonObject(f, i, t) : f \in {"id", "title"}, i \in ArtworkIds,
                           t \in {"Sunrise", "Harvest"}}

JsonCatalogs == UNION {[1..n -> JsonObjects] : n \in 0..MaxArtworks}

ValueOf(obj, key) == obj[CHOOSE n \in 1..Len(obj) : obj[n][1] = key][2]

(* json.dumps(..., sort_keys=True): every object with its keys sorted, the *)
(* list in the order it has in memory.                                     *)
JsonDumpsSortKeys(artworks) ==
    [n \in 1..Len(artworks) |->
        [k \in 1..Len(JsonKeys) |->
            <<JsonKeys[k], ValueOf(artworks[n], JsonKeys[k])>>]]

(* hashlib.sha256(text).hexdigest()[:16]: a digest that tells two texts    *)
(* apart (no collision among the texts of the model).                      *)
CurrentHash(artworks) == [digest |-> JsonDumpsSortKeys(artworks)]

FingerprintInputs ==
    [stage : {"in"}, first : JsonCatalogs, second : JsonCatalogs]

InitFingerprint ==
    /\ calc \in FingerprintInputs
    /\ db = EmptyDB
    /\ lock = "free"
    /\ pc = [t \in Threads |-> "idle"]
    /\ call = [t \in Threads |-> NoCall]
    /\ conn = EmptyTable
    /\ exc = [t \in Threads |-> "none"]
    /\ snap = EmptyTable
    /\ ncalls = 0
    /\ srch = NoSrch /\ disk = NoDisk /\ rag = NoRag

ApplyFingerprint ==
    /\ calc.stage = "in"
    /\ calc' = [stage |-> "out", first |-> calc.first, second |-> calc.second,
                hash1 |-> CurrentHash(calc.first),
                hash2 |-> CurrentHash(calc.second),
                again |-> CurrentHash(calc.first)]
    /\ UNCHANGED <<db, lock, pc, call, conn, exc, snap, ncalls, srch, disk, rag>>

SpecFingerprint == InitFingerprint /\ [][ApplyFingerprint]_vars

AsArtwork(obj) == Artwork(ValueOf(obj, "id"), ValueOf(obj, "title"))

(* The same artworks, whatever the order of the list and of the keys.      *)
SameCatalogContent(c1, c2) ==
    /\ Len(c1) = Len(c2)
    /\ \E p \in Permutations(1..Len(c1)) :
          \A n \in 1..Len(c1) : AsArtwork(c1[n]) = AsArtwork(c2[p[n]])

(* One catalog is the other with a field value of an artwork changed, and  *)
(* the change is not a mere reordering of the same artworks.               *)
FieldValueChanged(c1, c2) ==
    /\ Len(c1) = Len(c2)
    /\ \E n \in 1..Len(c1) : AsArtwork(c1[n]) # AsArtwork(c2[n])
    /\ ~SameCatalogContent(c1, c2)

(* C21: the fingerprint is the same on every computation for the same      *)
(* catalog content, whatever the order of keys inside the artwork objects  *)
(* and whatever the order of the artworks, and a changed field value of an *)
(* artwork changes the fingerprint.                                        *)
C21_FingerprintStable ==
    calc.stage = "out" =>
        /\ calc.again = calc.hash1
        /\ SameCatalogContent(calc.first, calc.second)
              => calc.hash1 = calc.hash2
        /\ FieldValueChanged(calc.first, calc.second)
              => calc.hash1 # calc.hash2


(* C22: a build makes exactly three chunks per catalog artwork, in catalog *)
(* order and within an artwork in the order title_artist, description,     *)
(* details: the chunk at position 3*i + j carries the id of the i-th       *)
(* artwork and the j-th kind; the catalog in memory is the one loaded.     *)
C22_ThreeChunksPerArtwork ==
    rag.path = "built" =>
        LET n == Len(rag.artworks)
            kinds == <<"title_artist", "description", "details">>
        IN /\ Len(rag.chunks) = 3 * n
           /\ \A i \in 0..(n - 1) : \A j \in 0..2 :
                 /\ rag.chunks[3 * i + j + 1].artwork_id = rag.artworks[i + 1].id
                 /\ rag.chunks[3 * i + j + 1].chunk_type = kinds[j + 1]
           /\ rag.artworks = LoadArtworks(disk.catalog).artworks

(* A build of a catalog of two artworks has finished.                      *)
C22_Witness ==
    /\ rag.path = "built" /\ rag.stage = "up"
    /\ Len(rag.artworks) = 2 /\ Len(rag.chunks) = 6
    /\ rag.artworks[1].id # rag.artworks[2].id


(* The hour bucket of a timestamp.  The timestamps of the model are whole  *)
(* days, so two rows are in one calendar hour iff their timestamps agree.  *)
HourOf(timestamp) == timestamp

RowsInHour(D, h) ==
    {x \in DOMAIN D.query_logs : HourOf(D.query_logs[x].timestamp) = h}

(* C23: once log_query(q) has been processed, a QueryLog row for q exists  *)
(* and the HourlyMetric row of the hour of q.timestamp counts the QueryLog *)
(* rows of that hour (q's among them) and their distinct visitors.         *)
C23_HourlyRollupAfterLogQuery ==
    [][\A t \in Threads :
         Returns(t, "log_query") =>
           LET q == call[t]
               h == HourOf(q.timestamp)
           IN /\ q.query_id \in DOMAIN db'.query_logs
              /\ db'.query_logs[q.query_id].timestamp = q.timestamp
              /\ h \in DOMAIN db'.hourly_metrics
              /\ db'.hourly_metrics[h].total_queries
                    = Cardinality(RowsInHour(db', h))
              /\ db'.hourly_metrics[h].unique_visitors
                    = Cardinality({db'.query_logs[x].visitor_id :
                                      x \in RowsInHour(db', h)})]_vars


(* The stated formula in hundredths, with click_rate 0 when queries = 0:   *)
(* the four weighted terms added in the stated order, in float arithmetic. *)
StatedScore(queries, clicks, similarity, positive, negative) ==
    LET click_rate == IF queries = 0 THEN FloatZero
                      ELSE Ratio(clicks, queries)
        feedback_rate == IF positive + negative > 0
                         THEN Ratio(positive, positive + negative)
                         ELSE Ratio(5, 10)
        volume == FloatMin(Ratio(queries, 50), FloatFromInt(1))
    IN Round2(FloatMul(
                FloatAdd(
                  FloatAdd(
                    FloatAdd(FloatMul(volume, Ratio(4, 10)),
                             FloatMul(click_rate, Ratio(3, 10))),
                    FloatMul(similarity, Ratio(2, 10))),
                  FloatMul(feedback_rate, Ratio(1, 10))),
                FloatFromInt(100)))

(* C24: _calculate_demand_score(q, c, s, p, n) is                          *)
(* 100 * (min(q/50, 1)*0.4 + click_rate*0.3 + s*0.2 + feedback_rate*0.1)   *)
(* rounded to 2 decimals, click_rate = c/q (0 if q = 0), feedback_rate =   *)
(* p/(p+n) or 0.5, for every input, q = 0 included.                        *)
C24_ScoreIsStatedFormula ==
    calc.stage = "out" =>
        calc.score = StatedScore(calc.queries, calc.clicks, calc.similarity,
                                 calc.positive, calc.negative)


HasInteraction(D, q, a) ==
    \E k \in 1..Len(D.artwork_interactions) :
        /\ D.artwork_interactions[k].query_id = q
        /\ D.artwork_interactions[k].artwork_id = a

(* C25: when no ArtworkInteraction row matches (query_id, artwork_id),     *)
(* record_click still adds 1 to total_clicks and the duration to           *)
(* total_time_viewed of the artwork's ArtworkDemand row, if there is one,  *)
(* and changes no ArtworkInteraction row.                                  *)
C25_UnmatchedClickStillCounted ==
    [][\A t \in Threads :
         (/\ Returns(t, "record_click")
          /\ ~HasInteraction(db, call[t].query_id, call[t].artwork_id)
          /\ call[t].artwork_id \in DOMAIN db.artwork_demand)
         => LET a == call[t].artwork_id
            IN /\ a \in DOMAIN db'.artwork_demand
               /\ db'.artwork_demand[a].total_clicks
                     = db.artwork_demand[a].total_clicks + 1
               /\ db'.artwork_demand[a].total_time_viewed
                     = db.artwork_demand[a].total_time_viewed
                       + call[t].duration
               /\ db'.artwork_interactions = db.artwork_interactions]_vars

(* A click without a matching interaction has been committed: an artwork   *)
(* has a click counted while no interaction row is marked clicked.         *)
C25_Witness ==
    /\ \A t \in Threads : pc[t] = "idle"
    /\ \E a \in DOMAIN db.artwork_demand :
          /\ db.artwork_demand[a].total_clicks = 1
          /\ db.artwork_demand[a].total_time_viewed > 0
    /\ \A k \in 1..Len(db.artwork_interactions) :
          ~db.artwork_interactions[k].was_clicked


----------------------------------------------------------------------------
(* The retention sweep on its own: a database file of an earlier run, and  *)
(* a construction of AnalyticsDB on a given day, which runs                *)
(* _cleanup_old_data on the file.                                          *)

SweepDays == {80, 90, 100, 150, 151}

InitSweep ==
    /\ db \in StartFiles
    /\ calc \in [stage : {"file"}, now : SweepDays]
    /\ lock = "free"
    /\ pc = [t \in Threads |-> "idle"]
    /\ call = [t \in Threads |-> NoCall]
    /\ conn = EmptyTable
    /\ exc = [t \in Threads |-> "none"]
    /\ snap = EmptyTable
    /\ ncalls = 0
    /\ srch = NoSrch /\ disk = NoDisk /\ rag = NoRag

(* AnalyticsDB(): the tables exist already, the sweep runs and commits.    *)
Construct ==
    /\ calc.stage = "file"
    /\ db' = CleanupOldData(db, calc.now)
    /\ calc' = [stage |-> "swept", now |-> calc.now, before |-> db]
    /\ UNCHANGED <<lock, pc, call, conn, exc, snap, ncalls, srch, disk, rag>>

SpecSweep == InitSweep /\ [][Construct]_vars

(* C26: the retention sweep deletes exactly the QueryLog rows whose        *)
(* timestamp is older than now minus the retention window of 90 days,      *)
(* keeps every row inside the window, and leaves every ArtworkInteraction, *)
(* Feedback, ArtworkDemand, VisitorSession and HourlyMetric row unchanged. *)
C26_SweepDeletesOldQueriesOnly ==
    calc.stage = "swept" =>
        /\ DOMAIN db.query_logs =
              {q \in DOMAIN calc.before.query_logs :
                  calc.before.query_logs[q].timestamp >= calc.now - 90}
        /\ \A q \in DOMAIN db.query_logs :
              db.query_logs[q] = calc.before.query_logs[q]
        /\ db.artwork_interactions = calc.before.artwork_interactions
        /\ db.feedback = calc.before.feedback
        /\ db.artwork_demand = calc.before.artwork_demand
        /\ db.visitor_sessions = calc.before.visitor_sessions
        /\ db.hourly_metrics = calc.before.hourly_metrics

(* A sweep has deleted a query that interactions refer to and has kept a   *)
(* query that stands exactly at the cutoff.                                *)
C26_Witness ==
    /\ calc.stage = "swept"
    /\ DOMAIN calc.before.query_logs # DOMAIN db.query_logs
    /\ \E q \in DOMAIN db.query_logs :
          db.query_logs[q].timestamp = calc.now - 90
    /\ \E k \in 1..Len(db.artwork_interactions) :
          db.artwork_interactions[k].query_id \notin DOMAIN db.query_logs


(* C27: start_session of a VisitorSession (session_id and visitor_id are   *)
(* strings) inserts one row with zero counters; with a session_id that     *)
(* already has a row it fails with a duplicate-key error and leaves the    *)
(* existing row, counters included, unchanged.  (A table keyed by          *)
(* session_id has at most one row per session_id.)                         *)
C27_StartSessionInsertsOnce ==
    [][\A t \in Threads :
         (Returns(t, "start_session") /\ call[t].visitor_id # NoVisitor) =>
           LET s == call[t].session_id
           IN IF s \in DOMAIN db.visitor_sessions
              THEN /\ exc[t] = "IntegrityError"
                   /\ db'.visitor_sessions = db.visitor_sessions
              ELSE /\ exc[t] = "none"
                   /\ DOMAIN db'.visitor_sessions
                        = DOMAIN db.visitor_sessions \cup {s}
                   /\ db'.visitor_sessions[s].total_queries = 0
                   /\ db'.visitor_sessions[s].total_artworks_viewed = 0
                   /\ db'.visitor_sessions[s].total_time_spent = 0
                   /\ \A x \in DOMAIN db.visitor_sessions :
                        db'.visitor_sessions[x] = db.visitor_sessions[x]]_vars

(* A second start of a session whose counters have moved is about to       *)
(* return with the duplicate-key error.                                    *)
C27_Witness ==
    \E t \in Threads :
        /\ pc[t] = "body" /\ call[t].op = "start_session"
        /\ call[t].visitor_id # NoVisitor
        /\ exc[t] = "IntegrityError"
        /\ call[t].session_id \in DOMAIN db.visitor_sessions
        /\ db.visitor_sessions[call[t].session_id].total_artworks_viewed > 0


(* C28: VisitorSession counters are monotonic: over every update_session   *)
(* and record_click call (and those process_query makes), whatever the     *)
(* arguments, a session's total_queries, total_artworks_viewed and         *)
(* total_time_spent never decrease.                                        *)
C28_SessionCountersMonotonic ==
    [][\A s \in DOMAIN db.visitor_sessions :
         /\ s \in DOMAIN db'.visitor_sessions
         /\ db'.visitor_sessions[s].total_queries
               >= db.visitor_sessions[s].total_queries
         /\ db'.visitor_sessions[s].total_artworks_viewed
               >= db.visitor_sessions[s].total_artworks_viewed
         /\ db'.visitor_sessions[s].total_time_spent
               >= db.visitor_sessions[s].total_time_spent]_vars


(* C29: every stored Feedback.score and every non-null                     *)
(* ArtworkInteraction.feedback_score lies in 1..5 in every reachable       *)
(* state (a record_feedback call with a score outside 1..5 stores          *)
(* nothing).  A feedback_score of 0 stands for NULL.                       *)
C29_StoredScoresInRange ==
    /\ \A k \in 1..Len(db.feedback) : db.feedback[k].score \in 1..5
    /\ \A k \in 1..Len(db.artwork_interactions) :
          db.artwork_interactions[k].feedback_score \in 0..5


----------------------------------------------------------------------------
(* The notification the server emits once a ledger call made for a request *)
(* has ended with exception e ("none" if it returned normally).            *)
(*   record_artwork_click, record_feedback: the emit follows the ledger    *)
(*   call inside the try block, so an exception skips it.                  *)
(*   process_query: _log_query_analytics catches every exception of        *)
(*   log_query, log_artwork_interaction and update_session, and the emit   *)
(*   of new_query follows it unconditionally.                              *)
EventAfter(c, e) ==
    IF c.op \in {"log_query", "log_artwork_interaction", "update_session"}
    THEN "new_query"
    ELSE IF c.op = "record_click"
    THEN (IF e = "none" THEN "artwork_click" ELSE "none")
    ELSE IF c.op = "record_feedback"
    THEN (IF e = "none" THEN "feedback" ELSE "none")
    ELSE "none"

(* C30: a notification event (new_query, artwork_click, feedback) is       *)
(* emitted only after its ledger write has completed successfully; no      *)
(* event is emitted for a ledger write that failed.                        *)
C30_NoEventForFailedWrite ==
    [][\A t \in Threads :
         (pc[t] = "body" /\ pc'[t] = "idle" /\ exc[t] # "none")
         => EventAfter(call[t], exc[t]) = "none"]_vars


----------------------------------------------------------------------------
(* export_data on its own: a ledger, a period and the day of the call.     *)

Periods == {"24h", "7d", "30d", "all"}
ExportQueryLimit == 1000       \* LIMIT 1000 on query_logs
ExportHourlyLimit == 168       \* LIMIT 168 on hourly_metrics
CsvQueryLimit == 50            \* data['queries'][:50] of _convert_to_csv
Formats == {"json", "csv"}

(* _get_time_filter: "AND timestamp >= cutoff" for 24h, 7d and 30d (the    *)
(* cutoff in days before now), the empty string for anything else.         *)
GetTimeFilter(period, now) ==
    IF period = "24h" THEN [filtered |-> TRUE, cutoff |-> now - 1]
    ELSE IF period = "7d" THEN [filtered |-> TRUE, cutoff |-> now - 7]
    ELSE IF period = "30d" THEN [filtered |-> TRUE, cutoff |-> now - 30]
    ELSE [filtered |-> FALSE, cutoff |-> 0]

(* The tables of _init_db that have a column named timestamp.              *)
HasTimestampColumn(table) == table \in {"query_logs", "feedback"}

(* SELECT * FROM table WHERE 1=1 {time_filter}: the keys of the rows       *)
(* selected, or OperationalError (no such column: timestamp) when the      *)
(* filter names a column the table does not have.                          *)
SelectFiltered(D, table, f) ==
    IF f.filtered /\ ~HasTimestampColumn(table)
    THEN [exc |-> "OperationalError", keys |-> {}]
    ELSE IF table = "query_logs"
    THEN [exc |-> "none",
          keys |-> {q \in DOMAIN D.query_logs :
                      f.filtered => D.query_logs[q].timestamp >= f.cutoff}]
    ELSE IF table = "artwork_demand"
    THEN [exc |-> "none", keys |-> DOMAIN D.artwork_demand]
    ELSE [exc |-> "none", keys |-> DOMAIN D.hourly_metrics]

(* What export_data gives back: `type` none when it raises, dict for the   *)
(* json format, str for the csv text.  Lists are given by the number of    *)
(* their rows; total_records is a key of the dict only, and `lines` the    *)
(* number of lines of the text.                                            *)
Exported(e, type, artworks, queries, hourly, total, lines) ==
    [exc |-> e, type |-> type, artworks |-> artworks, queries |-> queries,
     hourly_metrics |-> hourly, total_records |-> total, lines |-> lines]

(* _convert_to_csv: a title and a header line, one line per artwork (its   *)
(* click-through rate divides by the row's total_queries), an empty line,  *)
(* a title and a header line, and one line for each of the first           *)
(* CsvQueryLimit queries.  Hourly metrics and total_records are not        *)
(* written.                                                                *)
ConvertToCsv(D, artwork_keys, nq) ==
    IF \E a \in artwork_keys : D.artwork_demand[a].total_queries = 0
    THEN Exported("ZeroDivisionError", "none", 0, 0, 0, 0, 0)
    ELSE LET shown == Min(nq, CsvQueryLimit)
         IN Exported("none", "str", Cardinality(artwork_keys), shown, 0, 0,
                     2 + Cardinality(artwork_keys) + 3 + shown)

(* export_data(period, format): the three SELECTs in order, the first      *)
(* exception leaving the call; then the dict, or its csv text.             *)
ExportData(D, period, format, now) ==
    LET f == GetTimeFilter(period, now)
        a == SelectFiltered(D, "artwork_demand", f)
        q == SelectFiltered(D, "query_logs", f)
        h == SelectFiltered(D, "hourly_metrics", f)
        nq == Min(Cardinality(q.keys), ExportQueryLimit)
        nh == Min(Cardinality(h.keys), ExportHourlyLimit)
    IN IF a.exc # "none" \/ q.exc # "none" \/ h.exc # "none"
       THEN Exported("OperationalError", "none", 0, 0, 0, 0, 0)
       ELSE IF format = "csv" THEN ConvertToCsv(D, a.keys, nq)
       ELSE Exported("none", "dict", Cardinality(a.keys), nq, nh,
                     Cardinality(a.keys) + nq + nh, 0)

InitExport ==
    /\ db \in {CleanupOldData(f, now) : f \in StartFiles, now \in StartDays}
    /\ calc \in [stage : {"in"}, period : Periods, format : Formats,
                 now : StartDays]
    /\ lock = "free"
    /\ pc = [t \in Threads |-> "idle"]
    /\ call = [t \in Threads |-> NoCall]
    /\ conn = EmptyTable
    /\ exc = [t \in Threads |-> "none"]
    /\ snap = EmptyTable
    /\ ncalls = 0
    /\ srch = NoSrch /\ disk = NoDisk /\ rag = NoRag

ApplyExport ==
    /\ calc.stage = "in"
    /\ calc' = [stage |-> "out", period |-> calc.period,
                format |-> calc.format, now |-> calc.now,
                data |-> ExportData(db, calc.period, calc.format, calc.now)]
    /\ UNCHANGED <<db, lock, pc, call, conn, exc, snap, ncalls, srch, disk, rag>>

SpecExport == InitExport /\ [][ApplyExport]_vars

(* C31: export_data(period, format) returns without error for every period *)
(* in {24h, 7d, 30d, all} and either format: the result holds the          *)
(* ArtworkDemand rows, at most 1000 QueryLog rows and at most 168          *)
(* HourlyMetric rows, and the exported dict has total_records equal to the *)
(* sum of the three list lengths (0 with three empty lists when no row     *)
(* matches).                                                               *)
C31_ExportReturnsForEveryPeriod ==
    calc.stage = "out" =>
        /\ calc.data.exc = "none"
        /\ calc.data.artworks = Cardinality(DOMAIN db.artwork_demand)
        /\ calc.data.queries <= 1000
        /\ calc.data.hourly_metrics <= 168
        /\ calc.data.type = "dict" =>
              calc.data.total_records =
                 calc.data.artworks + calc.data.queries
                 + calc.data.hourly_metrics


(* C32: log_query for an hour in which no artwork interaction exists       *)
(* completes without raising and stores the HourlyMetric row of that hour  *)
(* with top_artwork_id and top_artwork_title absent (0 stands for None).   *)
C32_LogQueryWithoutTopArtwork ==
    [][\A t \in Threads :
         (Returns(t, "log_query") /\ Len(db.artwork_interactions) = 0)
         => /\ exc[t] = "none"
            /\ HourOf(call[t].timestamp) \in DOMAIN db'.hourly_metrics
            /\ db'.hourly_metrics[HourOf(call[t].timestamp)].top_artwork_id
                  = 0]_vars


(* C33: record_click(query_id, artwork_id, duration) marks exactly the     *)
(* ArtworkInteraction rows matching (query_id, artwork_id), adds 1 to      *)
(* total_artworks_viewed and the duration to total_time_spent of exactly   *)
(* the VisitorSession that owns query_id, and leaves every other           *)
(* interaction, every other session, every QueryLog row and the            *)
(* ArtworkDemand rows of other artworks unchanged; without a QueryLog row  *)
(* for query_id no session changes.                                        *)
C33_RecordClickFrame ==
    [][\A t \in Threads :
         Returns(t, "record_click") =>
           LET c == call[t]
               owner == IF c.query_id \in DOMAIN db.query_logs
                        THEN {db.query_logs[c.query_id].session_id}
                        ELSE {}
           IN /\ Len(db'.artwork_interactions) = Len(db.artwork_interactions)
              /\ \A k \in 1..Len(db.artwork_interactions) :
                    LET r == db.artwork_interactions[k]
                    IN IF r.query_id = c.query_id /\ r.artwork_id = c.artwork_id
                       THEN db'.artwork_interactions[k] =
                              [r EXCEPT !.was_clicked = TRUE,
                                        !.click_duration = c.duration]
                       ELSE db'.artwork_interactions[k] = r
              /\ DOMAIN db'.visitor_sessions = DOMAIN db.visitor_sessions
              /\ \A s \in DOMAIN db.visitor_sessions :
                    IF s \in owner
                    THEN db'.visitor_sessions[s] =
                           [db.visitor_sessions[s] EXCEPT
                              !.total_artworks_viewed = @ + 1,
                              !.total_time_spent = @ + c.duration]
                    ELSE db'.visitor_sessions[s] = db.visitor_sessions[s]
              /\ db'.query_logs = db.query_logs
              /\ DOMAIN db'.artwork_demand = DOMAIN db.artwork_demand
              /\ \A a \in DOMAIN db.artwork_demand :
                    a # c.artwork_id
                    => db'.artwork_demand[a] = db.artwork_demand[a]]_vars

(* A click on a stored interaction of a logged query is about to commit    *)
(* while another session and another interaction exist.                    *)
C33_Witness ==
    \E t \in Threads :
        /\ pc[t] = "body" /\ call[t].op = "record_click" /\ exc[t] = "none"
        /\ call[t].query_id \in DOMAIN db.query_logs
        /\ HasInteraction(db, call[t].query_id, call[t].artwork_id)
        /\ \E k \in 1..Len(db.artwork_interactions) :
              db.artwork_interactions[k].artwork_id # call[t].artwork_id
        /\ \E s \in DOMAIN db.visitor_sessions :
              s # db.query_logs[call[t].query_id].session_id


----------------------------------------------------------------------------
(* Searches on a built system of three artworks with distinct ids: nine    *)
(* chunks, of which a search for top_k artworks retrieves top_k * 3.       *)

InitOversample ==
    /\ srch \in
         LET c == <<A1, A2, Artwork(3, "Weaver")>>
             y == System(c, c, c)
         IN {[stage |-> "up", artworks |-> y.artworks, chunks |-> y.chunks,
              index |-> y.index, sims |-> f, embed |-> "ok",
              last |-> NoSearch] :
                f \in [1..Len(y.index) -> SimVals]}
    /\ disk = NoDisk /\ rag = NoRag
    /\ db = EmptyDB
    /\ lock = "free"
    /\ pc = [t \in Threads |-> "idle"]
    /\ call = [t \in Threads |-> NoCall]
    /\ conn = EmptyTable
    /\ exc = [t \in Threads |-> "none"]
    /\ snap = EmptyTable
    /\ ncalls = 0
    /\ calc = NoCalc

(* The first search of the freshly built system.                           *)
FirstSearchCall == srch.last = NoSearch /\ SearchCall

SpecOversample == InitOversample /\ [][FirstSearchCall]_vars

(* The best similarity among the chunks of an artwork id.                  *)
BestChunkSimilarity(s, id) ==
    LET of == {n \in 1..Len(s.chunks) : s.chunks[n].artwork_id = id}
    IN CHOOSE v \in {s.sims[n] : n \in of} :
          \A n \in of : s.sims[n] <= v

(* The artwork ids with at least one chunk at or above the threshold.      *)
Qualifying(s, threshold) ==
    {s.chunks[n].artwork_id :
        n \in {x \in 1..Len(s.chunks) : s.sims[x] >= threshold}}

(* C34: with distinct artwork ids (three chunks per artwork) and no stale  *)
(* chunk, search(query, top_k, threshold) returns exactly the              *)
(* min(top_k, m) artworks with the highest best-chunk similarity, m the    *)
(* number of artworks with a chunk at or above the threshold: no artwork   *)
(* left out has a better best chunk than one returned, and each result     *)
(* carries its best-chunk similarity.                                      *)
C34_OversamplingSufficient ==
    srch.last # NoSearch =>
        LET out == srch.last.out
            ids == {out.results[n].id : n \in 1..Len(out.results)}
            Q == Qualifying(srch, srch.last.threshold)
        IN /\ out.status = "returned"
           /\ Len(out.results) = Min(srch.last.top_k, Cardinality(Q))
           /\ Cardinality(ids) = Len(out.results)
           /\ ids \subseteq Q
           /\ \A n \in 1..Len(out.results) :
                 out.results[n].similarity_score
                    = BestChunkSimilarity(srch, out.results[n].id)
           /\ \A a \in Q \ ids : \A b \in ids :
                 BestChunkSimilarity(srch, a) <= BestChunkSimilarity(srch, b)

(* A search for two artworks among three qualifying ones, where all three  *)
(* chunks of the best artwork come before the best chunk of the second.    *)
C34_Witness ==
    /\ srch.last # NoSearch /\ srch.last.top_k = 2
    /\ Len(srch.last.out.results) = 2
    /\ Cardinality(Qualifying(srch, srch.last.threshold)) = 3
    /\ \A n \in 1..Len(srch.chunks) :
          srch.chunks[n].artwork_id = srch.last.out.results[1].id
          => srch.sims[n] > srch.last.out.results[2].similarity_score


InteractionsOf(D, a) ==
    {k \in 1..Len(D.artwork_interactions) :
        D.artwork_interactions[k].artwork_id = a}

----------------------------------------------------------------------------
(* The session step of process_query (server.py, "Get or create session"   *)
(* and "Start session if new"): session_exists in a get_connection block   *)
(* of its own, then start_session in another, with the lock free between   *)
(* the two.  What process_query does after it is left out here.            *)

(* A request thread enters process_query with the session_id of its        *)
(* metadata.                                                               *)
ProcessQuery(t) ==
    /\ pc[t] = "idle"
    /\ ncalls < MaxCalls
    /\ \E s \in SessionIds \cup NewSessionIds, v \in VisitorIds :
         call' = [call EXCEPT ![t] = [op |-> "process_query",
                                      session_id |-> s, visitor_id |-> v]]
    /\ pc' = [pc EXCEPT ![t] = "session_exists"]
    /\ ncalls' = ncalls + 1
    /\ UNCHANGED <<db, lock, conn, exc, snap, calc, srch, disk, rag>>

(* session_exists: the whole block (lock, SELECT 1 ..., commit, unlock).   *)
(* A session found ends the step; otherwise the thread goes on to          *)
(* start_session and arrives at its `with self.lock`.                      *)
SessionExists(t) ==
    /\ pc[t] = "session_exists"
    /\ LockAvailable(lock, t)
    /\ IF call[t].session_id \in DOMAIN db.visitor_sessions
       THEN /\ pc' = [pc EXCEPT ![t] = "idle"]
            /\ call' = [call EXCEPT ![t] = NoCall]
       ELSE /\ pc' = [pc EXCEPT ![t] = "acquire"]
            /\ UNCHANGED call
    /\ UNCHANGED <<db, lock, conn, exc, snap, ncalls, calc, srch, disk, rag>>

(* start_session(session) of process_query: the block of AcquireFrom with  *)
(* the one call the thread has decided on.                                 *)
StartSession(t) ==
    /\ call[t].op = "process_query"
    /\ AcquireFrom(t, {[op |-> "start_session",
                        session_id |-> call[t].session_id,
                        visitor_id |-> call[t].visitor_id]})

SpecProcessQuery ==
    InitSession
    /\ [][\E t \in Threads :
             \/ ProcessQuery(t) \/ SessionExists(t)
             \/ StartSession(t) \/ Release(t)]_vars

(* C36: for any interleaving of concurrent process_query calls with the    *)
(* same not-yet-existing session_id, no call fails with a duplicate-       *)
(* session error: the start_session of a process_query that carries a      *)
(* visitor_id never raises.                                                *)
C36_NoDuplicateSessionError ==
    [][\A t \in Threads :
         (Returns(t, "start_session") /\ call[t].visitor_id # NoVisitor)
         => exc[t] = "none"]_vars


(* C37: mutual exclusion on the persistence handle: in every reachable     *)
(* state at most one thread is inside a get_connection block (has an open  *)
(* connection) and it holds the lock; every exit of the block, the one     *)
(* after a raising body included, closes the connection and leaves the     *)
(* lock free for the next thread.                                          *)
C37_MutualExclusion ==
    /\ [](/\ Cardinality(DOMAIN conn) <= 1
          /\ \A t \in DOMAIN conn :
                lock = t /\ pc[t] \in {"body", "nested_acquire"})
    /\ [][\A t \in Threads :
            (pc[t] = "body" /\ pc'[t] = "idle")
            => (lock' = "free" /\ t \notin DOMAIN conn')]_vars

(* A thread is about to leave its block with an exception while the other  *)
(* thread waits for the lock.                                              *)
C37_Witness ==
    \E t \in Threads : \E u \in Threads \ {t} :
        /\ pc[t] = "body" /\ exc[t] # "none" /\ lock = t
        /\ t \in DOMAIN conn
        /\ pc[u] = "acquire"


----------------------------------------------------------------------------
(* _log_query_analytics of one process_query: log_query, then one          *)
(* log_artwork_interaction per returned artwork, then update_session, all  *)
(* inside one try block whose handler logs the exception and returns.      *)
(* Each ledger call is a get_connection block of its own: it commits or    *)
(* rolls back before the next begins; a call whose helper opens a nested   *)
(* block never returns.  `writes` lists the calls committed, in order.     *)

NewQueryIds == {"q3"}        \* process_query draws a fresh uuid4
ResponseTimes == {5}

(* The artworks search returned to process_query: distinct ids, best       *)
(* first.                                                                  *)
Candidates == {<<>>, <<1>>, <<2>>, <<1, 2>>, <<2, 1>>}

AnalyticsEnd(D, status, e, writes) ==
    [db |-> D, status |-> status, exc |-> e, writes |-> writes]

(* One ledger call c of the sequence on the committed content D.           *)
LedgerCall(D, c) ==
    LET o == Body(D, c)
    IN [db |-> GetConnectionExit(D, o.db, o.exc), exc |-> o.exc,
        blocked |-> o.exc = "none" /\ o.nested]

(* Update session: the last statement of the try block.                    *)
UpdateSessionStep(D, session_id, response_time, writes) ==
    LET r == LedgerCall(D, [op |-> "update_session", session_id |-> session_id,
                            updates |-> SessionUpdate(
                                {"total_queries", "total_time"},
                                1, response_time, 0)])
    IN IF r.exc # "none" THEN AnalyticsEnd(r.db, "caught", r.exc, writes)
       ELSE AnalyticsEnd(r.db, "done", "none",
                         Append(writes, "update_session"))

(* for i, artwork in enumerate(artworks): log_artwork_interaction, from    *)
(* the i-th artwork on (i counts from 0), then the session update.         *)
RECURSIVE LogInteractions(_, _, _, _, _, _, _)
LogInteractions(D, query_id, artworks, i, session_id, response_time, writes) ==
    IF i >= Len(artworks)
    THEN UpdateSessionStep(D, session_id, response_time, writes)
    ELSE LET r == LedgerCall(D,
                    [op |-> "log_artwork_interaction",
                     interaction |->
                        InteractionRow(<<query_id, i>>, query_id,
                                       artworks[i + 1], Ratio(5, 10),
                                       FALSE, 0)])
         IN IF r.exc # "none" THEN AnalyticsEnd(r.db, "caught", r.exc, writes)
            ELSE IF r.blocked THEN AnalyticsEnd(D, "blocked", "none", writes)
            ELSE LogInteractions(r.db, query_id, artworks, i + 1, session_id,
                                 response_time,
                                 Append(writes, "log_artwork_interaction"))

(* _log_query_analytics.                                                   *)
LogQueryAnalytics(D, query_id, session_id, artworks, response_time) ==
    LET r == LedgerCall(D, [op |-> "log_query", query_id |-> query_id,
                            session_id |-> session_id, visitor_id |-> "v1",
                            timestamp |-> CallDay])
    IN IF r.exc # "none" THEN AnalyticsEnd(r.db, "caught", r.exc, <<>>)
       ELSE IF r.blocked THEN AnalyticsEnd(D, "blocked", "none", <<>>)
       ELSE LogInteractions(r.db, query_id, artworks, 0, session_id,
                            response_time, <<"log_query">>)

(* The ledger when process_query reaches "Log analytics": the session has  *)
(* a row, found by session_exists or inserted by start_session.            *)
InitAnalytics ==
    /\ calc \in [stage : {"in"}, query_id : NewQueryIds,
                 session_id : SessionIds, artworks : Candidates,
                 response_time : ResponseTimes]
    /\ db \in {LET D == CleanupOldData(f, now)
                    c == [session_id |-> calc.session_id,
                          visitor_id |-> "v1"]
                IN IF c.session_id \in DOMAIN D.visitor_sessions THEN D
                   ELSE StartSessionBody(D, c).db :
                  f \in SessionStartFiles, now \in StartDays}
    /\ lock = "free"
    /\ pc = [t \in Threads |-> "idle"]
    /\ call = [t \in Threads |-> NoCall]
    /\ conn = EmptyTable
    /\ exc = [t \in Threads |-> "none"]
    /\ snap = EmptyTable
    /\ ncalls = 0
    /\ srch = NoSrch /\ disk = NoDisk /\ rag = NoRag

(* process_query reaches "Log analytics" and _log_query_analytics runs to  *)
(* its end.                                                                *)
LogQueryAnalyticsCall ==
    /\ calc.stage = "in"
    /\ LET r == LogQueryAnalytics(db, calc.query_id, calc.session_id,
                                  calc.artworks, calc.response_time)
       IN /\ db' = r.db
          /\ calc' = [stage |-> "out", query_id |-> calc.query_id,
                      session_id |-> calc.session_id,
                      artworks |-> calc.artworks,
                      response_time |-> calc.response_time,
                      before |-> db, status |-> r.status, exc |-> r.exc,
                      writes |-> r.writes]
    /\ UNCHANGED <<lock, pc, call, conn, exc, snap, ncalls, srch, disk, rag>>

SpecAnalytics == InitAnalytics /\ [][LogQueryAnalyticsCall]_vars

InteractionsOfQuery(D, q) ==
    {k \in 1..Len(D.artwork_interactions) :
        D.artwork_interactions[k].query_id = q}

============================================================================
